---- MODULE Spec2Model ----
(***************************************************************************)
(* The container record of the daemon (daemon/container/container.go):     *)
(* its restart-policy handling and its persistence (config.v2.json,        *)
(* hostconfig.json, the view store).  One container is modelled.  Objects  *)
(* that the Go code reaches through pointers (the State, the MountPoints  *)
(* map, the HostConfig, the RestartManager) live in heaps and are named by *)
(* references, so that sharing between a live container and a snapshot is  *)
(* something a state can show.                                             *)
(***************************************************************************)
EXTENDS Integers, Sequences, FiniteSets, TLC

\* ------------------------------------------------------------------ bounds
MaxRetries == 2        \* largest MaximumRetryCount a policy is given
MaxRefs == 9           \* cells of the object heap
MaxManagers == 2       \* cells of the restart-manager heap
MaxMountVal == 1       \* distinct contents of the MountPoints map: 0..MaxMountVal

Nil == 0
Refs == 1..MaxRefs
Slots == 1..MaxManagers

\* A spontaneous exit is modelled while RestartCount <= MaxRetries; past that
\* the process of the model keeps running.
MaxRestartCount == MaxRetries + 1

\* ---------------------------------------------------------- restart policy
Policy(name, max) == [Name |-> name, MaximumRetryCount |-> max]
ZeroPolicy == Policy("", 0)
PolicySet ==
    {Policy("no", 0), Policy("always", 0), Policy("unless-stopped", 0)}
        \cup {Policy("on-failure", n) : n \in 0..MaxRetries}

\* Exit codes of the modelled commands: `true`, `false`, and a SIGKILLed task.
ExitTrue == 0
ExitFalse == 1
ExitKilled == 137
ExitCodes == {ExitTrue, ExitFalse, ExitKilled}
Commands == {"true", "false", "top"}

\* ------------------------------------------------------------- object heap
FreeCell == [kind |-> "free"]
StateObj(phase, code) == [kind |-> "State", phase |-> phase, ExitCode |-> code]
MapObj(val) == [kind |-> "Map", val |-> val]
\* A HostConfig: its restart policy and its DNS list (nil, empty, or set; the
\* DNSSearch and DNSOptions lists behave as the DNS list does).
HostConfigOf(policy, dns) ==
    [kind |-> "HostConfig", RestartPolicy |-> policy, DNS |-> dns]
DnsValues == {"nil", "empty", "set"}
\* The HostConfig of a container the daemon creates: the DNS list is not nil.
HostConfigObj(policy) == HostConfigOf(policy, "empty")

IsFree(h, r) == h[r].kind = "free"
NewRef(h) == CHOOSE r \in Refs : IsFree(h, r) /\ \A q \in Refs : IsFree(h, q) => r <= q

NoContainer == [none |-> TRUE]

\* The objects a Container value points to.
RefsOf(c) ==
    IF c = NoContainer THEN {}
    ELSE {c.State, c.MountPoints} \cup (IF c.HostConfig = Nil THEN {} ELSE {c.HostConfig})

\* Go's collector: a cell no root reaches is free again.
Collect(h, roots) == [r \in Refs |-> IF r \in roots THEN h[r] ELSE FreeCell]

\* ------------------------------------------------- restart manager (heap)
FreeMgr == [policy |-> ZeroPolicy, restartCount |-> 0, canceled |-> FALSE,
            active |-> FALSE, wait |-> "free"]

rmNew(policy, restartCount) ==
    [policy |-> policy, restartCount |-> restartCount, canceled |-> FALSE,
     active |-> FALSE, wait |-> "none"]

IsNone(p) == p.Name \in {"no", ""}

\* The decision rule of the restart manager.
rmDecide(m, exitCode, hasBeenManuallyStopped) ==
    /\ ~IsNone(m.policy)
    /\ ~m.canceled
    /\ ~m.active
    /\ \/ m.policy.Name = "always" /\ ~hasBeenManuallyStopped
       \/ m.policy.Name = "unless-stopped" /\ ~hasBeenManuallyStopped
       \/ /\ m.policy.Name = "on-failure"
          /\ exitCode # 0
          /\ m.restartCount < m.policy.MaximumRetryCount

\* RestartManager.ShouldRestart: the decision, and the manager afterwards (a
\* positive decision counts the retry and arms the restart timer).
rmShouldRestart(m, exitCode, hasBeenManuallyStopped) ==
    LET r == rmDecide(m, exitCode, hasBeenManuallyStopped)
    IN  [restart |-> r,
         rm |-> IF r THEN [m EXCEPT !.restartCount = @ + 1, !.active = TRUE,
                                    !.wait = "pending"]
                ELSE m]

\* RestartManager.Cancel: a timer that has not fired is revoked, atomically
\* with respect to its firing.
rmCancel(m) ==
    [m EXCEPT !.canceled = TRUE, !.wait = IF @ = "pending" THEN "canceled" ELSE @]

\* The restart timer fires: the wait resolves without error.
rmFire(m) == [m EXCEPT !.wait = "fired", !.active = FALSE]

NewSlot(ms) == CHOOSE s \in Slots : ms[s].wait = "free" /\ \A q \in Slots : ms[q].wait = "free" => s <= q

\* A manager neither the container nor a waiting goroutine refers to is gone.
CollectMgrs(ms, cur) ==
    [s \in Slots |-> IF s = cur \/ ms[s].wait \in {"pending", "fired", "canceled"}
                     THEN ms[s] ELSE FreeMgr]

\* ------------------------------------------- Container: restart manager
\* Container.RestartManager: the manager is created on first use, from the
\* HostConfig's policy and the container's RestartCount, and kept.
RestartManager(c, h, ms) ==
    IF c.restartManager = Nil
    THEN LET s == NewSlot(ms)
         IN  [c |-> [c EXCEPT !.restartManager = s],
              ms |-> [ms EXCEPT ![s] = rmNew(h[c.HostConfig].RestartPolicy, c.RestartCount)]]
    ELSE [c |-> c, ms |-> ms]

\* ExitOnNext with the Cancel left out.
ExitOnNext_NoCancel(c, h, ms) == RestartManager(c, h, ms)

\* Container.ExitOnNext: RestartManager().Cancel().
ExitOnNext(c, h, ms) ==
    LET w == RestartManager(c, h, ms)
    IN  [c |-> w.c, ms |-> [w.ms EXCEPT ![w.c.restartManager] = rmCancel(@)]]

\* ShouldRestart with the exit code left at zero.
ShouldRestart_ExitCodeDropped(c, h, ms) ==
    LET w == RestartManager(c, h, ms)
        r == rmShouldRestart(w.ms[w.c.restartManager], 0, c.HasBeenManuallyStopped)
    IN  [restart |-> r.restart, c |-> w.c,
         ms |-> [w.ms EXCEPT ![w.c.restartManager] = r.rm]]

\* ShouldRestart handing over HasBeenStartedBefore (true of every container
\* that exits) in place of HasBeenManuallyStopped.
ShouldRestart_StartedBefore(c, h, ms) ==
    LET w == RestartManager(c, h, ms)
        r == rmShouldRestart(w.ms[w.c.restartManager], h[c.State].ExitCode, TRUE)
    IN  [restart |-> r.restart, c |-> w.c,
         ms |-> [w.ms EXCEPT ![w.c.restartManager] = r.rm]]

\* ShouldRestart asking a manager built for the occasion instead of the
\* container's own.
ShouldRestart_FreshManager(c, h, ms) ==
    LET w == RestartManager(c, h, ms)
        m == w.ms[w.c.restartManager]
        r == rmShouldRestart(rmNew(h[c.HostConfig].RestartPolicy, c.RestartCount),
                             h[c.State].ExitCode, c.HasBeenManuallyStopped)
    IN  [restart |-> r.restart, c |-> w.c,
         ms |-> [w.ms EXCEPT ![w.c.restartManager] =
                    IF r.restart THEN [r.rm EXCEPT !.canceled = m.canceled] ELSE m]]

\* ShouldRestart returning whether the manager reported no error, in place
\* of its decision.
ShouldRestart_ErrNil(c, h, ms) ==
    LET w == RestartManager(c, h, ms)
        m == w.ms[w.c.restartManager]
        r == rmShouldRestart(m, h[c.State].ExitCode, c.HasBeenManuallyStopped)
    IN  [restart |-> ~m.canceled /\ ~m.active, c |-> w.c,
         ms |-> [w.ms EXCEPT ![w.c.restartManager] = r.rm]]

\* Container.ShouldRestart: the manager is asked with the container's exit
\* code and HasBeenManuallyStopped.  (The exit codes of the model are within
\* uint32, where the conversion changes nothing; the run time only feeds the
\* backoff delay, which the model leaves open.)
ShouldRestart(c, h, ms) ==
    LET w == RestartManager(c, h, ms)
        r == rmShouldRestart(w.ms[w.c.restartManager], h[c.State].ExitCode,
                             c.HasBeenManuallyStopped)
    IN  [restart |-> r.restart, c |-> w.c,
         ms |-> [w.ms EXCEPT ![w.c.restartManager] = r.rm]]

\* ResetRestartManager without the reset of the count.
ResetRestartManager_KeepCount(c, ms, resetCount) ==
    [c |-> [c EXCEPT !.restartManager = Nil],
     ms |-> IF c.restartManager # Nil
            THEN [ms EXCEPT ![c.restartManager] = rmCancel(@)]
            ELSE ms]

\* ResetRestartManager dropping the manager without cancelling it.
ResetRestartManager_NoCancel(c, ms, resetCount) ==
    [c |-> [c EXCEPT !.RestartCount = IF resetCount THEN 0 ELSE @,
                     !.restartManager = Nil],
     ms |-> ms]

\* Container.ResetRestartManager.
ResetRestartManager(c, ms, resetCount) ==
    [c |-> [c EXCEPT !.RestartCount = IF resetCount THEN 0 ELSE @,
                     !.restartManager = Nil],
     ms |-> IF c.restartManager # Nil
            THEN [ms EXCEPT ![c.restartManager] = rmCancel(@)]
            ELSE ms]

\* ------------------------------------------------------ Container: JSON
NoDoc == [none |-> TRUE]
NullHostConfigDoc == [null |-> TRUE, RestartPolicy |-> ZeroPolicy, DNS |-> "nil"]

\* json.Encode(container) with the HostConfig field serialized as well.
EncodeContainer_WithHostConfig(c, h) ==
    [State |-> [phase |-> h[c.State].phase, ExitCode |-> h[c.State].ExitCode],
     MountPoints |-> h[c.MountPoints].val,
     OS |-> c.OS,
     ImagePlatform |-> c.ImagePlatform,
     RestartCount |-> c.RestartCount,
     HasBeenManuallyStopped |-> c.HasBeenManuallyStopped,
     HostConfig |-> IF c.HostConfig = Nil THEN ZeroPolicy
                    ELSE h[c.HostConfig].RestartPolicy]

\* json.Encode(container): the fields of the struct that are serialized.
\* HostConfig, HasBeenManuallyRestarted and restartManager are not.
EncodeContainer(c, h) ==
    [State |-> [phase |-> h[c.State].phase, ExitCode |-> h[c.State].ExitCode],
     MountPoints |-> h[c.MountPoints].val,
     OS |-> c.OS,
     ImagePlatform |-> c.ImagePlatform,
     RestartCount |-> c.RestartCount,
     HasBeenManuallyStopped |-> c.HasBeenManuallyStopped]

\* json.Decode into a zero Container: new State and map objects are
\* allocated; the fields the document does not carry stay zero.
DecodeContainer(doc, h) ==
    LET rs == NewRef(h)
        h1 == [h EXCEPT ![rs] = StateObj(doc.State.phase, doc.State.ExitCode)]
        rm == NewRef(h1)
        h2 == [h1 EXCEPT ![rm] = MapObj(doc.MountPoints)]
    IN  [c |-> [State |-> rs, MountPoints |-> rm, HostConfig |-> Nil,
                OS |-> doc.OS, ImagePlatform |-> doc.ImagePlatform,
                RestartCount |-> doc.RestartCount,
                HasBeenManuallyStopped |-> doc.HasBeenManuallyStopped,
                HasBeenManuallyRestarted |-> FALSE,
                restartManager |-> Nil],
         h |-> h2]

\* json.Encode of the HostConfig pointer: null for a nil pointer.
EncodeHostConfig(c, h) ==
    IF c.HostConfig = Nil THEN NullHostConfigDoc
    ELSE [null |-> FALSE, RestartPolicy |-> h[c.HostConfig].RestartPolicy,
          DNS |-> h[c.HostConfig].DNS]

\* WriteHostConfig decodes into a HostConfig value and returns its address:
\* a null document leaves the zero value.
DecodeHostConfigValue(doc, h) ==
    LET r == NewRef(h)
    IN  [ref |-> r,
         h |-> [h EXCEPT ![r] = IF doc.null THEN HostConfigOf(ZeroPolicy, "nil")
                                ELSE HostConfigOf(doc.RestartPolicy, doc.DNS)]]

\* CommitInMemory decodes into the copy's nil HostConfig pointer: a null
\* document leaves it nil.
DecodeHostConfigPointer(doc, h) ==
    IF doc.null THEN [ref |-> Nil, h |-> h]
    ELSE LET r == NewRef(h)
         IN  [ref |-> r,
              h |-> [h EXCEPT ![r] = HostConfigOf(doc.RestartPolicy, doc.DNS)]]

\* ------------------------------------------------------------ the files
ConfigFile == "config.v2.json"
HostConfigFile == "hostconfig.json"
FileNames == {ConfigFile, HostConfigFile}
TmpOf(name) == ".tmp-" \o name
Paths == FileNames \cup {TmpOf(n) : n \in FileNames}

\* A file: absent, or the first `written` of the two halves of `doc`.
NoFile == [exists |-> FALSE, written |-> 0, doc |-> NoDoc]
EmptyFile == [exists |-> TRUE, written |-> 0, doc |-> NoDoc]
PartialFile(doc) == [exists |-> TRUE, written |-> 1, doc |-> doc]
WholeFile(doc) == [exists |-> TRUE, written |-> 2, doc |-> doc]
Parses(f) == f.exists /\ f.written = 2

\* A writer that opens pth itself and writes there.
WriterPath_InPlace(name) == name

\* atomicwriter.New(pth, 0o600): the path the writer writes to is a
\* temporary file next to pth.
WriterPath(name) == TmpOf(name)

\* atomicFileWriter.Close: a file written without error replaces the target
\* in one rename; in every case the temporary file is gone afterwards.
WriterClose(fs, name, ok) ==
    LET w == WriterPath(name)
    IN  IF w = name THEN fs
        ELSE [fs EXCEPT ![name] = IF ok /\ fs[w].exists /\ fs[w].written > 0
                                  THEN fs[w] ELSE @,
                        ![w] = NoFile]

\* toDisk / CheckpointTo with no step failing and no interruption, as the
\* handlers that hold the container lock use it: both files replaced, the
\* copy handed to the view store.
toDisk(c, h, fs) ==
    LET doc == EncodeContainer(c, h)
        d == DecodeContainer(doc, h)
        hdoc == EncodeHostConfig(c, h)
        hc == DecodeHostConfigValue(hdoc, d.h)
    IN  [copy |-> [d.c EXCEPT !.HostConfig = hc.ref],
         h |-> hc.h,
         fs |-> [fs EXCEPT ![ConfigFile] = WholeFile(doc),
                           ![HostConfigFile] = WholeFile(hdoc)]]

\* ViewDB.Save: the entry of the container is replaced.
Save(v, copy) == copy

\* A checkpoint that saves the copy and leaves the files alone.
CheckpointTo_MemoryOnly(c, h, fs, v) ==
    LET d == DecodeContainer(EncodeContainer(c, h), h)
        hc == DecodeHostConfigPointer(EncodeHostConfig(c, h), d.h)
        copy == [d.c EXCEPT !.HostConfig = hc.ref]
    IN  [h |-> Collect(hc.h, RefsOf(c) \cup RefsOf(copy)), fs |-> fs,
         view |-> Save(v, copy)]

\* Container.CheckpointTo: toDisk, then the copy is saved in the view store.
CheckpointTo(c, h, fs, v) ==
    LET d == toDisk(c, h, fs)
    IN  [h |-> Collect(d.h, RefsOf(c) \cup RefsOf(d.copy)), fs |-> d.fs,
         view |-> Save(v, d.copy)]

\* CommitInMemory handing the live container to the store.
CommitInMemory_Shallow(c, h, v) == [h |-> h, view |-> Save(v, c)]

\* CommitInMemory: the same copy, built without touching the files.
CommitInMemory(c, h, v) ==
    LET d == DecodeContainer(EncodeContainer(c, h), h)
        hc == DecodeHostConfigPointer(EncodeHostConfig(c, h), d.h)
        copy == [d.c EXCEPT !.HostConfig = hc.ref]
    IN  [h |-> Collect(hc.h, RefsOf(c) \cup RefsOf(copy)), view |-> Save(v, copy)]

\* ---------------------------------------------------------------- state
VARIABLES
    container,  \* the live Container value
    heap,       \* the objects Container values point to
    mgrs,       \* the restart managers
    files,      \* the container's directory: path -> file
    view,       \* the container's entry of the view store
    cmd,        \* the command of the container
    killed,     \* a kill signal has been delivered to the running task
    exitPc,     \* position of the exit-event handler
    stopPc,     \* position of a user's Stop or Restart request
    pc,         \* position of a CheckpointTo in progress
    deepCopy,   \* the copy a CheckpointTo in progress has built
    ret,        \* how the last CheckpointTo or CommitInMemory returned
    saved,      \* history: what the container showed at the last Save
    ck,         \* history: the files around the CheckpointTo in progress
    logs,       \* the container's logging: configuration, driver, copier, ring
    store,      \* the daemon's containers: store, name registry, directories
    g           \* history of the run, read by the properties only

vars == <<container, heap, mgrs, files, view, cmd, killed, exitPc, stopPc,
          pc, deepCopy, ret, saved, ck, logs, store, g>>
\* What neither the lifecycle handlers nor the persistence steps touch.
auxVars == <<logs, store>>
diskVars == <<pc, deepCopy, ret, ck, auxVars>>
lifeVars == <<mgrs, cmd, killed, exitPc, stopPc, g, auxVars>>

Phase(c, h) == h[c.State].phase
Running == Phase(container, heap) = "running"
Restarting == Phase(container, heap) = "restarting"
Exited == Phase(container, heap) = "exited"

\* State.SetRunning / SetStopped / SetRestarting.
SetRunning(c, h) == [h EXCEPT ![c.State] = StateObj("running", 0)]
SetStopped(c, h, code) == [h EXCEPT ![c.State] = StateObj("exited", code)]
SetRestarting(c, h, code) == [h EXCEPT ![c.State] = StateObj("restarting", code)]

\* The container lock is free: no handler holding it is in progress.
LockFree == exitPc = "idle" /\ pc = "idle"

HostArch == "amd64"
HostOS == "linux"
DefaultSpec == [OS |-> HostOS, Architecture |-> HostArch]

NoDecision ==
    [made |-> FALSE, policy |-> ZeroPolicy, exitCode |-> 0, manual |-> FALSE,
     count |-> 0, canceled |-> FALSE, restart |-> FALSE]

InitHistory ==
    [policyRestarts |-> 0, stopIssued |-> FALSE, stopped |-> FALSE,
     stopRace |-> "none", exitOnNext |-> FALSE,
     decision |-> NoDecision]

\* NewBaseContainer, then what creation sets.
NewBaseContainer(policy) ==
    [c |-> [State |-> 1, MountPoints |-> 2, HostConfig |-> 3,
            OS |-> HostOS, ImagePlatform |-> DefaultSpec,
            RestartCount |-> 0, HasBeenManuallyStopped |-> FALSE,
            HasBeenManuallyRestarted |-> FALSE, restartManager |-> Nil],
     h |-> [r \in Refs |-> CASE r = 1 -> StateObj("created", 0)
                             [] r = 2 -> MapObj(0)
                             [] r = 3 -> HostConfigObj(policy)
                             [] OTHER -> FreeCell]]

\* What the properties compare: the contents a Container value shows.
ValueOf(c, h) ==
    IF c = NoContainer THEN NoDoc
    ELSE [doc |-> EncodeContainer(c, h), host |-> EncodeHostConfig(c, h)]

\* Logging not configured and not started.
NoLogs == [none |-> TRUE]

\* The daemon's record of its containers.  live and removed are the
\* containers registered in the store and those removed from it, each with
\* its ID, its name and the number of the Create that made it; names is the
\* name registry, dirs the container directories on disk, used the IDs handed
\* out so far, and calls the Create requests in progress.
MaxCreates == 3
ContainerIDs == 1..MaxCreates
Callers == {"first", "second"}
ContainerNames == {"thost", "web"}
NoCall == [pc |-> "idle", name |-> "", id |-> Nil, serial |-> 0,
           result |-> "none"]
EmptyStore ==
    [live |-> {}, removed |-> {}, names |-> [n \in ContainerNames |-> Nil],
     dirs |-> {}, used |-> {}, created |-> 0,
     calls |-> [c \in Callers |-> NoCall]]

\* The files a checkpoint replaces, and the documents it writes to them.
Targets(fs) == [n \in FileNames |-> fs[n]]
DocsOf(c, h) ==
    [n \in FileNames |-> IF n = ConfigFile THEN EncodeContainer(c, h)
                         ELSE EncodeHostConfig(c, h)]
NoCheckpoint(fs) ==
    [before |-> Targets(fs), writing |-> [n \in FileNames |-> fs[n].doc],
     good |-> Targets(fs)]

Init ==
    \E policy \in PolicySet, command \in Commands :
        LET b == NewBaseContainer(policy)
            k == CheckpointTo(b.c, b.h,
                              [p \in Paths |-> NoFile], NoContainer)
        IN  /\ container = b.c
            /\ heap = k.h
            /\ files = k.fs
            /\ view = k.view
            /\ mgrs = [s \in Slots |-> FreeMgr]
            /\ cmd = command
            /\ killed = FALSE
            /\ exitPc = "idle"
            /\ stopPc = "idle"
            /\ pc = "idle"
            /\ deepCopy = NoContainer
            /\ ret = "none"
            /\ saved = ValueOf(b.c, b.h)
            /\ ck = NoCheckpoint(k.fs)
            /\ logs = NoLogs
            /\ store = EmptyStore
            /\ g = InitHistory

\* The end of a handler: the managers and the container as left by it, the
\* state checkpointed.
Commit(c, h, ms) ==
    LET k == CheckpointTo(c, h, files, view)
    IN  /\ container' = c
        /\ heap' = k.h
        /\ files' = k.fs
        /\ view' = k.view
        /\ mgrs' = CollectMgrs(ms, c.restartManager)
        /\ saved' = ValueOf(c, h)

\* --------------------------------------------------------------- start
\* A user's start of a stopped container: the restart manager is renewed
\* with the count reset, the manual-stop mark cleared.
DoStart ==
    LET r == ResetRestartManager(container, mgrs, TRUE)
        c1 == [r.c EXCEPT !.HasBeenManuallyStopped = FALSE,
                          !.HasBeenManuallyRestarted = FALSE]
    IN  /\ Commit(c1, SetRunning(c1, heap), r.ms)
        /\ killed' = FALSE
        /\ g' = [g EXCEPT !.policyRestarts = 0, !.stopIssued = FALSE,
                          !.stopped = FALSE, !.stopRace = "none",
                          !.exitOnNext = FALSE]

Start ==
    /\ LockFree
    /\ stopPc = "idle"
    /\ Phase(container, heap) \in {"created", "exited"}
    /\ DoStart
    /\ UNCHANGED <<cmd, exitPc, stopPc, diskVars>>

\* ---------------------------------------------------------------- exit
ExitCodeOfTask == IF killed THEN ExitKilled
                  ELSE IF cmd = "true" THEN ExitTrue ELSE ExitFalse

\* The exit event of the task: the exit is applied and persisted.
HandleExit ==
    /\ LockFree
    /\ Running
    /\ killed \/ (cmd # "top" /\ container.RestartCount < MaxRestartCount)
    /\ LET h1 == SetStopped(container, heap, ExitCodeOfTask)
       IN  Commit(container, h1, mgrs)
    /\ killed' = FALSE
    /\ exitPc' = "decide"
    /\ UNCHANGED <<cmd, stopPc, diskVars, g>>

\* The restart policy is evaluated for the recorded exit.
RestartDecision ==
    /\ exitPc = "decide"
    /\ LET before == RestartManager(container, heap, mgrs)
           m == before.ms[before.c.restartManager]
           sr == ShouldRestart(container, heap, mgrs)
           code == heap[container.State].ExitCode
           c1 == IF sr.restart
                 THEN [sr.c EXCEPT !.RestartCount = @ + 1]
                 ELSE sr.c
           h1 == IF sr.restart THEN SetRestarting(c1, heap, code) ELSE heap
       IN  /\ Commit(c1, h1, sr.ms)
           /\ g' = [g EXCEPT
                 !.policyRestarts = IF sr.restart THEN @ + 1 ELSE @,
                 !.decision = [made |-> TRUE, policy |-> m.policy,
                               exitCode |-> code,
                               manual |-> container.HasBeenManuallyStopped,
                               count |-> m.restartCount,
                               canceled |-> m.canceled,
                               restart |-> sr.restart]]
    /\ exitPc' = "idle"
    /\ UNCHANGED <<cmd, killed, stopPc, diskVars>>

\* ------------------------------------------------------- restart timer
TimerFire(s) ==
    /\ mgrs[s].wait = "pending"
    /\ mgrs' = [mgrs EXCEPT ![s] = rmFire(@)]
    /\ UNCHANGED <<container, heap, files, view, cmd, killed, exitPc, stopPc,
                   diskVars, saved, g>>

\* The wait resolved without error: the container is started again, its
\* restart manager kept.
RestartStart(s) ==
    /\ LockFree
    /\ mgrs[s].wait = "fired"
    /\ LET h1 == SetRunning(container, heap)
       IN  Commit(container, h1, [mgrs EXCEPT ![s].wait = "none"])
    /\ killed' = FALSE
    /\ UNCHANGED <<cmd, exitPc, stopPc, diskVars, g>>

\* The wait resolved with the cancellation: the container stays stopped.
RestartCanceled(s) ==
    /\ LockFree
    /\ mgrs[s].wait = "canceled"
    /\ LET h1 == SetStopped(container, heap, heap[container.State].ExitCode)
       IN  Commit(container, h1, [mgrs EXCEPT ![s].wait = "none"])
    /\ UNCHANGED <<cmd, killed, exitPc, stopPc, diskVars, g>>

\* ---------------------------------------------------------- stop, restart
\* The restart timer of the container, as a request finds it.
WaitNow ==
    IF \E s \in Slots : mgrs[s].wait = "pending" THEN "pending"
    ELSE IF \E s \in Slots : mgrs[s].wait = "fired" THEN "fired"
    ELSE "none"

\* A user's stop of a running or restarting container is issued: the
\* container is marked manually stopped, the monitor told not to restart it,
\* and a running task is signalled.  The request then waits for the stop.
IssueStop(kind) ==
    /\ LockFree
    /\ stopPc = "idle"
    /\ Running \/ Restarting
    /\ LET c1 == [container EXCEPT
                     !.HasBeenManuallyStopped = TRUE,
                     !.HasBeenManuallyRestarted = (kind = "restart")]
           e == ExitOnNext(c1, heap, mgrs)
       IN  Commit(e.c, heap, e.ms)
    /\ killed' = Running
    /\ stopPc' = kind
    /\ g' = [g EXCEPT !.stopIssued = TRUE, !.stopRace = WaitNow,
                      !.exitOnNext = TRUE]
    /\ UNCHANGED <<cmd, exitPc, diskVars>>

StopIssue == IssueStop("stop")
RestartIssue == IssueStop("restart")

\* The waiting request finds the container running and not signalled (it was
\* started by a timer that had fired): it kills the task.
StopEscalate ==
    /\ LockFree
    /\ stopPc # "idle"
    /\ Running
    /\ ~killed
    /\ LET e == ExitOnNext(container, heap, mgrs)
       IN  Commit(e.c, heap, e.ms)
    /\ killed' = TRUE
    /\ g' = [g EXCEPT !.exitOnNext = TRUE]
    /\ UNCHANGED <<cmd, exitPc, stopPc, diskVars>>

\* The stop request returns once the container has stopped.
StopReturn ==
    /\ LockFree
    /\ stopPc = "stop"
    /\ Exited
    /\ stopPc' = "idle"
    /\ g' = [g EXCEPT !.stopped = TRUE]
    /\ UNCHANGED <<container, heap, mgrs, files, view, cmd, killed, exitPc,
                   diskVars, saved>>

\* The restart request starts the container once it has stopped.
RestartFinish ==
    /\ LockFree
    /\ stopPc = "restart"
    /\ Exited
    /\ DoStart
    /\ stopPc' = "idle"
    /\ UNCHANGED <<cmd, exitPc, diskVars>>

\* ------------------------------------------------------- specification
Next ==
    \/ Start
    \/ HandleExit
    \/ RestartDecision
    \/ \E s \in Slots : TimerFire(s)
    \/ \E s \in Slots : RestartStart(s)
    \/ \E s \in Slots : RestartCanceled(s)
    \/ StopIssue
    \/ RestartIssue
    \/ StopEscalate
    \/ StopReturn
    \/ RestartFinish

Spec == Init /\ [][Next]_vars

\* The daemon's own steps are taken when they can be; a user's requests
\* (Start, Stop, Restart) are not bound to happen.  Weak fairness of a step A
\* is written out as <>[](ENABLED <<A>>_vars) => []<><<A>>_vars, with the
\* guard of A for ENABLED <<A>>_vars (every one of these steps changes vars).
EnHandleExit ==
    /\ LockFree
    /\ Running
    /\ killed \/ (cmd # "top" /\ container.RestartCount < MaxRestartCount)
EnRestartDecision == exitPc = "decide"
EnRestartStart == LockFree /\ \E s \in Slots : mgrs[s].wait = "fired"
EnRestartCanceled == LockFree /\ \E s \in Slots : mgrs[s].wait = "canceled"
EnStopEscalate == LockFree /\ stopPc # "idle" /\ Running /\ ~killed
EnRestartFinish == LockFree /\ stopPc = "restart" /\ Exited

Fairness ==
    /\ WF_vars(\E s \in Slots : TimerFire(s))
    /\ WF_vars(StopReturn)
    /\ <>[]EnHandleExit => []<><<HandleExit>>_vars
    /\ <>[]EnRestartDecision => []<><<RestartDecision>>_vars
    /\ <>[]EnRestartStart => []<><<\E s \in Slots : RestartStart(s)>>_vars
    /\ <>[]EnRestartCanceled => []<><<\E s \in Slots : RestartCanceled(s)>>_vars
    /\ <>[]EnStopEscalate => []<><<StopEscalate>>_vars
    /\ <>[]EnRestartFinish => []<><<RestartFinish>>_vars

FairSpec == Init /\ [][Next]_vars /\ Fairness

TypeOK ==
    /\ container.RestartCount \in 0..(MaxRestartCount + 1)
    /\ Phase(container, heap) \in {"created", "running", "restarting", "exited"}
    /\ exitPc \in {"idle", "decide"}
    /\ stopPc \in {"idle", "stop", "restart"}

\* ------------------------------------------- the decision, on drawn inputs
\* The states in which an exit has been recorded and the restart decision is
\* about to be taken: every policy, exit code, retry count and manual-stop
\* mark, with the restart manager absent (as after FromDisk, which leaves the
\* unexported field nil), present, or present and cancelled by a stop.
InitDecide ==
    \E policy \in PolicySet, code \in ExitCodes, manual \in BOOLEAN,
       count \in 0..MaxRestartCount, mgr \in {"nil", "kept", "canceled"},
       command \in Commands :
        LET b == NewBaseContainer(policy)
            c == [b.c EXCEPT !.RestartCount = count,
                             !.HasBeenManuallyStopped = manual,
                             !.restartManager = IF mgr = "nil" THEN Nil ELSE 1]
            h == SetStopped(c, b.h, code)
            k == CheckpointTo(c, h, [p \in Paths |-> NoFile], NoContainer)
            m == rmNew(policy, count)
        IN  /\ mgr = "canceled" => manual
            /\ container = c
            /\ heap = k.h
            /\ files = k.fs
            /\ view = k.view
            /\ mgrs = [s \in Slots |->
                         IF s = 1 /\ mgr # "nil"
                         THEN (IF mgr = "canceled" THEN rmCancel(m) ELSE m)
                         ELSE FreeMgr]
            /\ cmd = command
            /\ killed = FALSE
            /\ exitPc = "decide"
            /\ stopPc = "idle"
            /\ pc = "idle"
            /\ deepCopy = NoContainer
            /\ ret = "none"
            /\ saved = ValueOf(c, h)
            /\ ck = NoCheckpoint(k.fs)
            /\ logs = NoLogs
            /\ store = EmptyStore
            /\ g = [InitHistory EXCEPT !.stopIssued = manual,
                                       !.exitOnNext = (mgr = "canceled")]

NextDecide == RestartDecision

SpecDecide == InitDecide /\ [][NextDecide]_vars

\* ------------------------------------------- persistence, step by step
\* CheckpointTo taken one statement at a time, so that a failure of any
\* statement and the death of the process between any two are states.  The
\* caller holds the container lock from the first step to the last: the live
\* container is not changed in between.
Loaded == container # NoContainer
EmptyHeap == [r \in Refs |-> FreeCell]

\* A return with an error: the copy in progress is dropped.
ReturnErr(fs) ==
    /\ files' = fs
    /\ pc' = "idle"
    /\ ret' = "err"
    /\ deepCopy' = NoContainer
    /\ heap' = Collect(heap, RefsOf(container) \cup RefsOf(view))
    /\ UNCHANGED <<container, view, saved, ck, lifeVars>>

\* The next statement is reached.
Goto(to, fs) ==
    /\ files' = fs
    /\ pc' = to
    /\ UNCHANGED <<container, heap, view, deepCopy, ret, saved, ck, lifeVars>>

\* The deferred f.Close() of toDisk, and the two deferred Closes that run when
\* WriteHostConfig returns into toDisk and toDisk returns.
CloseConfig(fs) == WriterClose(fs, ConfigFile, TRUE)
CloseBoth(fs, hostOk) == CloseConfig(WriterClose(fs, HostConfigFile, hostOk))

\* toDisk: container.ConfigPath().
ToDiskConfigPath ==
    /\ pc = "idle"
    /\ exitPc = "idle"
    /\ Loaded
    /\ ck' = [ck EXCEPT !.before = Targets(files),
                        !.writing = DocsOf(container, heap)]
    /\ \E ok \in BOOLEAN :
         /\ pc' = IF ok THEN "cfgNew" ELSE "idle"
         /\ ret' = IF ok THEN "none" ELSE "err"
    /\ UNCHANGED <<container, heap, files, view, deepCopy, saved, lifeVars>>

\* toDisk: atomicwriter.New(pth, 0o600).
ToDiskNew ==
    /\ pc = "cfgNew"
    /\ \E ok \in BOOLEAN :
         IF ok
         THEN Goto("cfgEncode", [files EXCEPT ![WriterPath(ConfigFile)] = EmptyFile])
         ELSE ReturnErr(files)

\* toDisk: Encode marshals the container, then writes the document to the
\* buffer and to the file.  A marshalling error leaves the file unwritten.
ToDiskEncode ==
    /\ pc = "cfgEncode"
    /\ \E ok \in BOOLEAN :
         IF ok
         THEN Goto("cfgWrite",
                   [files EXCEPT ![WriterPath(ConfigFile)] =
                        PartialFile(EncodeContainer(container, heap))])
         ELSE ReturnErr(CloseConfig(files))

\* The rest of the write: it completes, or it fails and the writer remembers.
ToDiskWrite ==
    /\ pc = "cfgWrite"
    /\ \E ok \in BOOLEAN :
         IF ok
         THEN Goto("cfgDecode",
                   [files EXCEPT ![WriterPath(ConfigFile)] =
                        WholeFile(EncodeContainer(container, heap))])
         ELSE ReturnErr(WriterClose(files, ConfigFile, FALSE))

\* toDisk: Decode(&deepCopy) from the buffer.
ToDiskDecode ==
    /\ pc = "cfgDecode"
    /\ \E ok \in BOOLEAN :
         IF ok
         THEN LET d == DecodeContainer(EncodeContainer(container, heap), heap)
              IN  /\ deepCopy' = d.c
                  /\ heap' = d.h
                  /\ pc' = "hostPath"
                  /\ UNCHANGED <<container, files, view, ret, saved, ck, lifeVars>>
         ELSE ReturnErr(CloseConfig(files))

\* WriteHostConfig: container.HostConfigPath().
WriteHostConfigPath ==
    /\ pc = "hostPath"
    /\ \E ok \in BOOLEAN :
         IF ok THEN Goto("hostNew", files) ELSE ReturnErr(CloseConfig(files))

\* WriteHostConfig: atomicwriter.New(pth, 0o600).
WriteHostConfigNew ==
    /\ pc = "hostNew"
    /\ \E ok \in BOOLEAN :
         IF ok
         THEN Goto("hostEncode", [files EXCEPT ![WriterPath(HostConfigFile)] = EmptyFile])
         ELSE ReturnErr(CloseConfig(files))

\* WriteHostConfig: Encode(&container.HostConfig).
WriteHostConfigEncode ==
    /\ pc = "hostEncode"
    /\ \E ok \in BOOLEAN :
         IF ok
         THEN Goto("hostWrite",
                   [files EXCEPT ![WriterPath(HostConfigFile)] =
                        PartialFile(EncodeHostConfig(container, heap))])
         ELSE ReturnErr(CloseBoth(files, TRUE))

WriteHostConfigWrite ==
    /\ pc = "hostWrite"
    /\ \E ok \in BOOLEAN :
         IF ok
         THEN Goto("hostDecode",
                   [files EXCEPT ![WriterPath(HostConfigFile)] =
                        WholeFile(EncodeHostConfig(container, heap))])
         ELSE ReturnErr(CloseBoth(files, FALSE))

\* WriteHostConfig: Decode(&deepCopy); toDisk stores its address in the copy.
WriteHostConfigDecode ==
    /\ pc = "hostDecode"
    /\ \E ok \in BOOLEAN :
         IF ok
         THEN LET hc == DecodeHostConfigValue(EncodeHostConfig(container, heap), heap)
              IN  /\ deepCopy' = [deepCopy EXCEPT !.HostConfig = hc.ref]
                  /\ heap' = hc.h
                  /\ pc' = "hostClose"
                  /\ UNCHANGED <<container, files, view, ret, saved, ck, lifeVars>>
         ELSE ReturnErr(CloseBoth(files, TRUE))

\* WriteHostConfig returns: its deferred f.Close().
WriteHostConfigClose ==
    /\ pc = "hostClose"
    /\ Goto("cfgClose", WriterClose(files, HostConfigFile, TRUE))

\* toDisk returns: its deferred f.Close().
ToDiskClose ==
    /\ pc = "cfgClose"
    /\ Goto("save", CloseConfig(files))

\* CheckpointTo: store.Save(deepCopy).
CheckpointSave ==
    /\ pc = "save"
    /\ view' = Save(view, deepCopy)
    /\ deepCopy' = NoContainer
    /\ heap' = Collect(heap, RefsOf(container) \cup RefsOf(deepCopy))
    /\ saved' = ValueOf(container, heap)
    /\ ck' = [ck EXCEPT !.good = Targets(files)]
    /\ pc' = "idle"
    /\ ret' = "ok"
    /\ UNCHANGED <<container, files, lifeVars>>

\* CommitInMemory persisting as CheckpointTo does.
CommitInMemoryCall_Persist ==
    /\ pc = "idle"
    /\ exitPc = "idle"
    /\ Loaded
    /\ Commit(container, heap, mgrs)
    /\ ret' = "ok"
    /\ UNCHANGED <<cmd, killed, exitPc, stopPc, g, pc, deepCopy, ck, auxVars>>

\* A caller of CommitInMemory, holding the lock.
CommitInMemoryCall ==
    /\ pc = "idle"
    /\ exitPc = "idle"
    /\ Loaded
    /\ \E ok \in BOOLEAN :
         IF ok
         THEN LET k == CommitInMemory(container, heap, view)
              IN  /\ heap' = k.h
                  /\ view' = k.view
                  /\ saved' = ValueOf(container, heap)
                  /\ ret' = "ok"
         ELSE /\ ret' = "err"
              /\ UNCHANGED <<heap, view, saved>>
    /\ UNCHANGED <<container, files, pc, deepCopy, ck, lifeVars>>

\* ---- changes of the live container, made in place under the lock
\* AddMountPointWithVolume: an entry is put into the MountPoints map.
AddMountPointWithVolume ==
    /\ pc = "idle"
    /\ Loaded
    /\ heap[container.MountPoints].val < MaxMountVal
    /\ heap' = [heap EXCEPT ![container.MountPoints].val = @ + 1]
    /\ UNCHANGED <<container, files, view, diskVars, saved, lifeVars>>

\* An update of the container's restart policy: the HostConfig is changed
\* where it is.  The retry count of the model's updates grows, up to MaxRetries.
UpdateRestartPolicy ==
    /\ pc = "idle"
    /\ Loaded
    /\ LET cur == heap[container.HostConfig].RestartPolicy
           n == IF cur.Name = "on-failure" THEN cur.MaximumRetryCount + 1 ELSE 1
       IN  /\ n <= MaxRetries
           /\ heap' = [heap EXCEPT ![container.HostConfig].RestartPolicy =
                                        Policy("on-failure", n)]
    /\ UNCHANGED <<container, files, view, diskVars, saved, lifeVars>>

\* ---- the death of the process, and the next daemon's load
\* The process is killed: what is in memory is gone, the directory stays as
\* it is, temporary files included.
Crash ==
    /\ pc # "crashed"
    /\ pc' = "crashed"
    /\ container' = NoContainer
    /\ view' = NoContainer
    /\ deepCopy' = NoContainer
    /\ heap' = EmptyHeap
    /\ ret' = "none"
    /\ saved' = NoDoc
    /\ UNCHANGED <<files, ck, lifeVars>>

\* readHostConfig taking a missing hostconfig.json for an error.
readHostConfig_MissingIsError(c, h, fs) ==
    LET f == fs[HostConfigFile]
        r == NewRef(h)
        zero == [h EXCEPT ![r] = HostConfigOf(ZeroPolicy, "nil")]
        c1 == [c EXCEPT !.HostConfig = r]
    IN  IF ~Parses(f) THEN [status |-> "err", c |-> c1, h |-> zero]
        ELSE IF f.doc.null
             THEN [status |-> "panic", c |-> [c EXCEPT !.HostConfig = Nil], h |-> h]
        ELSE [status |-> "ok", c |-> c1,
              h |-> [h EXCEPT ![r] = HostConfigOf(f.doc.RestartPolicy,
                                 IF f.doc.DNS = "nil" THEN "empty" ELSE f.doc.DNS)]]

\* InitDNSHostConfig: a nil DNS list becomes an empty one.
InitDNSHostConfig(c, h) ==
    [h EXCEPT ![c.HostConfig].DNS = IF @ = "nil" THEN "empty" ELSE @]

\* readHostConfig: a fresh zero HostConfig, which is all there is when
\* hostconfig.json does not exist; otherwise the file is decoded into it and
\* InitDNSHostConfig is applied.  A null document sets the pointer to nil,
\* which InitDNSHostConfig then dereferences.
readHostConfig(c, h, fs) ==
    LET f == fs[HostConfigFile]
        r == NewRef(h)
        zero == [h EXCEPT ![r] = HostConfigOf(ZeroPolicy, "nil")]
        c1 == [c EXCEPT !.HostConfig = r]
    IN  IF ~f.exists THEN [status |-> "ok", c |-> c1, h |-> zero]
        ELSE IF ~Parses(f) THEN [status |-> "err", c |-> c1, h |-> zero]
        ELSE IF f.doc.null
             THEN [status |-> "panic", c |-> [c EXCEPT !.HostConfig = Nil], h |-> h]
        ELSE [status |-> "ok", c |-> c1,
              h |-> InitDNSHostConfig(c1,
                       [h EXCEPT ![r] = HostConfigOf(f.doc.RestartPolicy, f.doc.DNS)])]

\* FromDisk that decodes config.v2.json and stops there.
FromDisk_SkipHostConfig(fs) ==
    LET f == fs[ConfigFile]
    IN  IF ~Parses(f) THEN [status |-> "err", c |-> NoContainer, h |-> EmptyHeap]
        ELSE LET d == DecodeContainer(f.doc, EmptyHeap)
                 r == NewRef(d.h)
             IN  [status |-> "ok", c |-> [d.c EXCEPT !.HostConfig = r],
                  h |-> [d.h EXCEPT ![r] = HostConfigOf(ZeroPolicy, "nil")]]

\* FromDisk without the migration of the OS field.
FromDisk_NoMigration(fs) ==
    LET f == fs[ConfigFile]
    IN  IF ~Parses(f) THEN [status |-> "err", c |-> NoContainer, h |-> EmptyHeap]
        ELSE LET d == DecodeContainer(f.doc, EmptyHeap)
             IN  readHostConfig(d.c, d.h, fs)

\* FromDisk, on a container made by NewBaseContainer.
FromDisk(fs) ==
    LET f == fs[ConfigFile]
    IN  IF ~Parses(f) THEN [status |-> "err", c |-> NoContainer, h |-> EmptyHeap]
        ELSE LET d == DecodeContainer(f.doc, EmptyHeap)
                 c1 == IF d.c.OS # ""
                       THEN (IF d.c.ImagePlatform.OS = ""
                             THEN [d.c EXCEPT !.ImagePlatform.OS = d.c.OS]
                             ELSE d.c)
                       ELSE [d.c EXCEPT !.ImagePlatform = DefaultSpec,
                                        !.OS = DefaultSpec.OS]
             IN  readHostConfig(c1, d.h, fs)

\* The next daemon loads the container from its directory.
Restore ==
    /\ pc = "crashed"
    /\ LET l == FromDisk(files)
       IN  /\ l.status = "ok"
           /\ container' = l.c
           /\ heap' = l.h
    /\ pc' = "idle"
    /\ ck' = NoCheckpoint(files)
    /\ UNCHANGED <<files, view, deepCopy, ret, saved, lifeVars>>

InitDisk ==
    LET b == NewBaseContainer(Policy("no", 0))
        k == CheckpointTo(b.c, b.h, [p \in Paths |-> NoFile], NoContainer)
    IN  /\ container = b.c
        /\ heap = k.h
        /\ files = k.fs
        /\ view = k.view
        /\ mgrs = [s \in Slots |-> FreeMgr]
        /\ cmd = "top"
        /\ killed = FALSE
        /\ exitPc = "idle"
        /\ stopPc = "idle"
        /\ pc = "idle"
        /\ deepCopy = NoContainer
        /\ ret = "none"
        /\ saved = ValueOf(b.c, b.h)
        /\ ck = NoCheckpoint(k.fs)
        /\ logs = NoLogs
        /\ store = EmptyStore
        /\ g = InitHistory

NextDisk ==
    \/ ToDiskConfigPath
    \/ ToDiskNew
    \/ ToDiskEncode
    \/ ToDiskWrite
    \/ ToDiskDecode
    \/ WriteHostConfigPath
    \/ WriteHostConfigNew
    \/ WriteHostConfigEncode
    \/ WriteHostConfigWrite
    \/ WriteHostConfigDecode
    \/ WriteHostConfigClose
    \/ ToDiskClose
    \/ CheckpointSave
    \/ CommitInMemoryCall
    \/ AddMountPointWithVolume
    \/ UpdateRestartPolicy
    \/ Crash
    \/ Restore

SpecDisk == InitDisk /\ [][NextDisk]_vars


\* ------------------------------------------------------------ properties
PolicyNow == heap[container.HostConfig].RestartPolicy
ExitCodeNow == heap[container.State].ExitCode
\* The exit handler has finished and no restart is waiting.
AtRest == Exited /\ exitPc = "idle" /\ WaitNow = "none"
           /\ \A s \in Slots : mgrs[s].wait # "canceled"

\* C1: with policy on-failure:N (N >= 1) and a command that exits non-zero on
\* every run, and no stop requested since the start, RestartCount never
\* exceeds N, a container at rest has been restarted exactly N times
\* (RestartCount = N), and a running container eventually comes to rest in
\* Exited (neither Running nor Restarting) with RestartCount = N.
C1Pre ==
    /\ PolicyNow.Name = "on-failure"
    /\ PolicyNow.MaximumRetryCount >= 1
    /\ cmd = "false"
    /\ ~g.stopIssued
C1Rest ==
    /\ AtRest
    /\ ~Running /\ ~Restarting
    /\ container.RestartCount = PolicyNow.MaximumRetryCount
    /\ g.policyRestarts = PolicyNow.MaximumRetryCount
C1_OnFailureCap ==
    /\ [](C1Pre => container.RestartCount <= PolicyNow.MaximumRetryCount)
    /\ [](C1Pre /\ AtRest => C1Rest)
    /\ ((C1Pre /\ Running) ~> (g.stopIssued \/ C1Rest))
C1_Witness ==
    /\ C1Pre /\ C1Rest
    /\ PolicyNow.MaximumRetryCount = MaxRetries

\* C2: a Stop that finds a restart scheduled ends with the container Exited:
\* once the Stop has returned the container is Exited with no restart
\* waiting, until a user starts it again; if the timer had not fired when the
\* Stop was issued it never fires and the container is never Running during
\* the Stop; and every issued Stop returns, also when the timer fired first
\* and the container was started again.
C2_StopBeatsRestart ==
    /\ [](g.stopped => AtRest)
    /\ [][stopPc = "stop" /\ g.stopRace = "pending" => ~Running' /\ WaitNow' # "fired"]_vars
    /\ ((stopPc = "stop") ~> g.stopped)
C2_Witness == g.stopped /\ g.stopRace = "fired" /\ AtRest

\* C3 (as claimed): the decision is true exactly for always/unless-stopped
\* without a manual stop and for on-failure with a non-zero exit code and the
\* retry counter below the maximum; it is false for policy no, for any
\* manually stopped container, and for on-failure with exit code 0 or the
\* counter at the maximum.
C3TrueCases(d) ==
    \/ d.policy.Name \in {"always", "unless-stopped"} /\ ~d.manual
    \/ /\ d.policy.Name = "on-failure"
       /\ d.exitCode # 0
       /\ d.count < d.policy.MaximumRetryCount
C3FalseCases(d) ==
    \/ d.policy.Name = "no"
    \/ d.manual
    \/ /\ d.policy.Name = "on-failure"
       /\ (d.exitCode = 0 \/ d.count >= d.policy.MaximumRetryCount)
C3_AsClaimed ==
    g.decision.made =>
        /\ g.decision.restart = C3TrueCases(g.decision)
        /\ C3FalseCases(g.decision) => ~g.decision.restart

\* C3 (amended): with a restart manager that has not been cancelled, the
\* decision is true exactly for always/unless-stopped without a manual stop
\* and for on-failure with a non-zero exit code and the retry counter below
\* the maximum, manually stopped or not; with a cancelled manager it is false.
C3_Decision ==
    g.decision.made =>
        g.decision.restart = (~g.decision.canceled /\ C3TrueCases(g.decision))
C3_Witness ==
    /\ g.decision.made
    /\ g.decision.restart
    /\ g.decision.policy.Name = "on-failure"
    /\ g.decision.manual
    /\ Restarting

\* C4: with policy always, an exit of a container that was not stopped by the
\* user (exit code 0 included) puts it in Restarting and it is then started
\* again; once a Stop has been issued the policy restarts it no more, the
\* Stop returns, and the container is then Exited.
C4Always == PolicyNow.Name = "always"
C4_AlwaysUntilStop ==
    /\ [][C4Always /\ exitPc = "decide" /\ ~container.HasBeenManuallyStopped
            => Restarting' /\ container'.RestartCount = container.RestartCount + 1]_vars
    /\ ((C4Always /\ Restarting /\ ~g.stopIssued) ~> (Running \/ g.stopIssued))
    /\ [][C4Always /\ g.stopIssued /\ g'.stopIssued
            => container'.RestartCount = container.RestartCount]_vars
    /\ ((C4Always /\ stopPc = "stop") ~> (g.stopped /\ Exited))
    /\ [](C4Always /\ g.stopped => Exited /\ WaitNow = "none")
C4_Witness ==
    /\ C4Always /\ cmd = "true"
    /\ container.RestartCount >= 1
    /\ g.stopped /\ Exited

\* C5: after ExitOnNext, and until the restart manager is renewed, the
\* decision on an exit is negative whatever the policy and the exit code, no
\* restart waits for its timer, and no timer fires.
C5_ExitOnNextHolds ==
    /\ [][g.exitOnNext /\ exitPc = "decide"
            => ~Restarting' /\ container'.RestartCount = container.RestartCount]_vars
    /\ [](g.exitOnNext => \A s \in Slots : mgrs[s].wait # "pending")
    /\ [][g.exitOnNext => \A s \in Slots :
                             mgrs'[s].wait = "fired" => mgrs[s].wait = "fired"]_vars
C5_Witness ==
    /\ g.exitOnNext /\ exitPc = "idle"
    /\ g.decision.made /\ g.decision.canceled /\ ~g.decision.restart
    /\ g.decision.policy.Name = "on-failure"
    /\ g.decision.exitCode # 0
    /\ g.decision.count < g.decision.policy.MaximumRetryCount

\* C6: RestartCount is the number of restarts the policy has decided since
\* the count was last reset, and a start by the user (Start, or the start of
\* a Restart) never raises it.
ManualStartStep == Phase(container, heap) \in {"created", "exited"} /\ Running'
C6_RestartCountCounts ==
    /\ [](container.RestartCount = g.policyRestarts)
    /\ [][ManualStartStep => container'.RestartCount <= container.RestartCount]_vars
    /\ [][container'.RestartCount > container.RestartCount
            => exitPc = "decide" /\ Restarting'
               /\ container'.RestartCount = container.RestartCount + 1]_vars
C6_Witness ==
    /\ container.RestartCount = 0
    /\ Running
    /\ g.decision.made /\ g.decision.restart

\* C7: with policy no the container is never restarted by the policy: its
\* RestartCount stays 0, it is never Restarting, an exit with code c leaves it
\* Exited with ExitCode c, and a task that exits leads to that rest.
C7No == PolicyNow.Name = "no"
C7_NoPolicyNoRestart ==
    /\ [](C7No => container.RestartCount = 0 /\ ~Restarting)
    /\ [][C7No /\ Running /\ ~Running' => Exited' /\ ExitCodeNow' = ExitCodeOfTask]_vars
    /\ [][C7No /\ exitPc = "decide" => Exited' /\ ExitCodeNow' = ExitCodeNow]_vars
    /\ ((C7No /\ Running /\ (killed \/ cmd # "top")) ~> (C7No /\ AtRest))
C7_Witness ==
    /\ C7No /\ AtRest
    /\ cmd = "true" /\ ExitCodeNow = 0
    /\ container.RestartCount = 0
    /\ g.decision.made /\ ~g.decision.restart

\* C8: whatever step of toDisk or WriteHostConfig the process is killed at (or
\* has reached), config.v2.json and hostconfig.json each hold a complete
\* document: the one the file held when the checkpoint began, or the one this
\* checkpoint writes.  Neither is ever truncated or partial.
C8_FilesWhole ==
    \A n \in FileNames :
        /\ Parses(files[n])
        /\ files[n] = ck.before[n] \/ files[n] = WholeFile(ck.writing[n])

\* The process was killed while config.v2.json was half written, the
\* container having changed since the previous checkpoint.
C8_Witness ==
    /\ pc = "crashed"
    /\ files[WriterPath(ConfigFile)].written = 1
    /\ ck.writing[ConfigFile] # ck.before[ConfigFile].doc
    /\ files[ConfigFile] = ck.before[ConfigFile]

\* C9: when CheckpointTo has returned an error, config.v2.json,
\* hostconfig.json and the view-store entry hold the values of the last
\* successful checkpoint.
C9_AllOrNothing ==
    (pc = "idle" /\ ret = "err" /\ Loaded) =>
        /\ Targets(files) = ck.good
        /\ ValueOf(view, heap) = saved

\* C10: the entry of the view store shows what the container showed at the
\* last CheckpointTo or CommitInMemory that saved it, and shares no object with
\* the live container: nothing done to the live container since is visible.
C10_ViewIsSnapshot ==
    /\ ValueOf(view, heap) = saved
    /\ RefsOf(view) \cap RefsOf(container) = {}

\* The live container has been changed, inside its MountPoints map and inside
\* its HostConfig, since the entry was saved.
C10_Witness ==
    /\ Loaded
    /\ view # NoContainer
    /\ pc = "idle"
    /\ heap[container.MountPoints].val # heap[view.MountPoints].val
    /\ heap[container.HostConfig].RestartPolicy # heap[view.HostConfig].RestartPolicy
    /\ ValueOf(view, heap) = saved

\* ------------------------------------------------ write, then load again
\* A container of any contents is written by CheckpointTo into an empty
\* directory; hostconfig.json may then be lost or damaged; the process ends and
\* the next one loads the container with FromDisk.  `ret` is how the load of
\* the directory as it is ended ("none": not loaded since it changed).
NoPlatform == [OS |-> "", Architecture |-> ""]
OtherPlatform == [OS |-> "windows", Architecture |-> HostArch]
OSValues == {"", HostOS, OtherPlatform.OS}
PlatformValues == {NoPlatform, DefaultSpec, OtherPlatform}
LoadPolicies == {Policy("no", 0), Policy("on-failure", MaxRetries)}

\* What a directory holds: the documents of its two files.
ValueOnDisk(t) == [doc |-> t[ConfigFile].doc, host |-> t[HostConfigFile].doc]

InitLoad ==
    \E os \in OSValues, ip \in PlatformValues, hc \in DnsValues \cup {"none"},
       policy \in LoadPolicies, mounts \in 0..MaxMountVal,
       count \in {0, MaxRetries}, manual \in BOOLEAN :
        LET b == NewBaseContainer(policy)
            c == [b.c EXCEPT !.OS = os, !.ImagePlatform = ip,
                             !.RestartCount = count,
                             !.HasBeenManuallyStopped = manual,
                             !.HasBeenManuallyRestarted = manual,
                             !.HostConfig = IF hc = "none" THEN Nil ELSE @]
            h == [r \in Refs |->
                    IF r = b.c.MountPoints THEN MapObj(mounts)
                    ELSE IF r = b.c.HostConfig
                         THEN (IF hc = "none" THEN FreeCell
                               ELSE HostConfigOf(policy, hc))
                    ELSE b.h[r]]
        IN  /\ container = c
            /\ heap = h
            /\ files = [p \in Paths |-> NoFile]
            /\ view = NoContainer
            /\ mgrs = [s \in Slots |-> FreeMgr]
            /\ cmd = "top"
            /\ killed = FALSE
            /\ exitPc = "idle"
            /\ stopPc = "idle"
            /\ pc = "idle"
            /\ deepCopy = NoContainer
            /\ ret = "none"
            /\ saved = NoDoc
            /\ ck = NoCheckpoint([p \in Paths |-> NoFile])
            /\ logs = NoLogs
            /\ store = EmptyStore
            /\ g = InitHistory

\* The container is checkpointed for the first time.
WriteAll ==
    /\ pc = "idle"
    /\ Loaded
    /\ ~files[ConfigFile].exists
    /\ LET k == CheckpointTo(container, heap, files, view)
       IN  /\ heap' = k.h
           /\ files' = k.fs
           /\ view' = k.view
           /\ ck' = NoCheckpoint(k.fs)
    /\ saved' = ValueOf(container, heap)
    /\ UNCHANGED <<container, pc, deepCopy, ret, lifeVars>>

\* hostconfig.json is gone from the directory.
HostConfigLost ==
    /\ pc = "idle"
    /\ files[ConfigFile].exists
    /\ files[HostConfigFile].exists
    /\ files' = [files EXCEPT ![HostConfigFile] = NoFile]
    /\ ret' = "none"
    /\ UNCHANGED <<container, heap, view, pc, deepCopy, ck, saved, lifeVars>>

\* hostconfig.json is cut short: it no longer decodes.
HostConfigDamaged ==
    /\ pc = "idle"
    /\ Parses(files[HostConfigFile])
    /\ files' = [files EXCEPT ![HostConfigFile] = PartialFile(@.doc)]
    /\ ret' = "none"
    /\ UNCHANGED <<container, heap, view, pc, deepCopy, ck, saved, lifeVars>>

\* The daemon ends; what is in memory is gone.
Shutdown ==
    /\ pc = "idle"
    /\ Loaded
    /\ files[ConfigFile].exists
    /\ pc' = "crashed"
    /\ container' = NoContainer
    /\ view' = NoContainer
    /\ heap' = EmptyHeap
    /\ saved' = NoDoc
    /\ ret' = "none"
    /\ UNCHANGED <<files, deepCopy, ck, lifeVars>>

\* The next daemon calls FromDisk on a fresh container.
LoadFromDisk ==
    /\ pc = "crashed"
    /\ LET l == FromDisk(files)
       IN  /\ ret' = l.status
           /\ container' = IF l.status = "ok" THEN l.c ELSE NoContainer
           /\ heap' = IF l.status = "ok" THEN l.h ELSE EmptyHeap
           /\ pc' = IF l.status = "ok" THEN "idle" ELSE "failed"
    /\ UNCHANGED <<files, view, deepCopy, saved, ck, lifeVars>>

NextLoad ==
    \/ WriteAll
    \/ HostConfigLost
    \/ HostConfigDamaged
    \/ Shutdown
    \/ LoadFromDisk

SpecLoad == InitLoad /\ [][NextLoad]_vars

\* FromDisk has run, on the directory as CheckpointTo left it.
LoadedIntact == ret # "none" /\ Targets(files) = ck.good
WrittenValue == ValueOnDisk(ck.good)

C11Settled(v) ==
    /\ v.doc.OS # ""
    /\ v.doc.ImagePlatform.OS # ""
    /\ ~v.host.null
    /\ v.host.DNS # "nil"

C12ConfigPaths == {ConfigFile, TmpOf(ConfigFile)}
C12_HostConfigApart ==
    /\ \A p \in C12ConfigPaths :
           files[p].written > 0 => "HostConfig" \notin DOMAIN files[p].doc
    /\ pc = "save" =>
           /\ files[HostConfigFile] = WholeFile(EncodeHostConfig(container, heap))
           /\ files[HostConfigFile].doc.RestartPolicy =
                  heap[container.HostConfig].RestartPolicy
           /\ files[ConfigFile] = WholeFile(EncodeContainer(container, heap))

\* toDisk has returned for a container whose restart policy was updated since
\* the previous checkpoint.
C12_Witness ==
    /\ pc = "save"
    /\ ck.before[HostConfigFile].doc.RestartPolicy.Name = "no"
    /\ files[HostConfigFile].doc.RestartPolicy = Policy("on-failure", MaxRetries)
    /\ "RestartPolicy" \notin DOMAIN files[ConfigFile].doc

C14_PlatformMigrated ==
    (ret = "ok" /\ Loaded /\ Parses(files[ConfigFile])) =>
        LET doc == files[ConfigFile].doc
        IN  /\ container.ImagePlatform.OS # ""
            /\ container.OS # ""
            /\ (doc.OS # "" /\ doc.ImagePlatform.OS = "") =>
                   /\ container.ImagePlatform.OS = doc.OS
                   /\ container.ImagePlatform.Architecture =
                          doc.ImagePlatform.Architecture
                   /\ container.OS = doc.OS
            /\ (doc.OS = "" /\ doc.ImagePlatform.OS = "") =>
                   /\ container.ImagePlatform = DefaultSpec
                   /\ container.OS = HostOS
            /\ (doc.OS # "" /\ doc.ImagePlatform.OS # "") =>
                   /\ container.ImagePlatform = doc.ImagePlatform
                   /\ container.OS = doc.OS

\* A document with the legacy OS field only, of an OS that is not the host's,
\* has been loaded.
C14_Witness ==
    /\ ret = "ok" /\ Loaded
    /\ files[ConfigFile].doc.OS = OtherPlatform.OS
    /\ files[ConfigFile].doc.ImagePlatform.OS = ""
    /\ container.ImagePlatform.OS = OtherPlatform.OS

\* C15: a CommitInMemory leaves config.v2.json and hostconfig.json (and every
\* other file) as they are, and a successful one makes the view-store entry a
\* copy of the container's current state, the container itself unchanged; a
\* load by the next daemon yields what the files hold, which is the state of
\* the last CheckpointTo when no later CheckpointTo ran, whatever
\* CommitInMemory has saved since.
C15_CommitInMemoryFrame ==
    /\ [][pc = "idle" => files' = files]_vars
    /\ [][pc = "idle" /\ pc' = "idle" /\ saved' # saved
            => /\ ValueOf(view', heap') = ValueOf(container, heap)
               /\ ValueOf(container', heap') = ValueOf(container, heap)
               /\ container' = container]_vars
    /\ [][pc = "crashed" /\ pc' = "idle"
            => /\ ValueOf(container', heap') = ValueOnDisk(Targets(files))
               /\ Targets(files) = ck.good
                    => ValueOf(container', heap') = ValueOnDisk(ck.good)]_vars

\* CommitInMemory has saved a state that differs from the one of the last
\* CheckpointTo, which the files still hold.
C15_Witness ==
    /\ pc = "idle"
    /\ ret = "ok"
    /\ Loaded
    /\ view # NoContainer
    /\ Targets(files) = ck.good
    /\ ValueOf(view, heap) = ValueOf(container, heap)
    /\ ValueOf(view, heap) # ValueOnDisk(ck.good)

\* ------------------------------------------------------- the log pipeline
\* The container's output goes through a pipe to the copier, which writes each
\* message to the attached log driver.  In non-blocking mode the driver is a
\* ring logger of a bounded number of bytes in front of the real driver.
MaxLine == 2        \* the longest message, in bytes
MaxBuffer == 3      \* the largest configured max-buffer-size, in bytes
MaxMessages == 4    \* the messages the process writes
PipeCap == 1        \* the messages the pipe holds before a write blocks

\* HostConfig.LogConfig: the driver name, Config["mode"] and
\* Config["max-buffer-size"] (absent, not a size, or a number of bytes).
LogTypes == {"none", "json-file", "splunk", "nodriver"}
LogModes == {"blocking", "non-blocking"}
LogModeNonBlock == "non-blocking"
MaxBufferSizes ==
    {[exists |-> FALSE, valid |-> TRUE, bytes |-> 0],
     [exists |-> TRUE, valid |-> FALSE, bytes |-> 0]}
    \cup {[exists |-> TRUE, valid |-> TRUE, bytes |-> n] :
             n \in MaxLine..MaxBuffer}

\* logger.GetLogDriver finds the factories of the registered drivers; the
\* drivers that can be read back implement logger.LogReader.
RegisteredDrivers == {"json-file", "splunk"}
LogReaders == {"json-file"}

\* The size logger.NewRingLogger takes when it is given a negative one.
DefaultRingMaxSize == MaxBuffer + MaxLine

\* Errors are the parts of their message, outermost first; nil has none.
NoErr == <<>>
ErrInitLogging == "failed to initialize logging driver"
ErrLoggingFactory == "failed to get logging factory"

\* Log drivers: none, a driver, or a ring logger around one; either may be
\* wrapped by the local cache.
NoDriver == [kind |-> "nil", name |-> "", maxSize |-> 0, cache |-> FALSE]
PlainDriver(name) ==
    [kind |-> "plain", name |-> name, maxSize |-> 0, cache |-> FALSE]
NewRingLogger(l, bufferSize) ==
    [l EXCEPT !.kind = "ring",
              !.maxSize = IF bufferSize < 0 THEN DefaultRingMaxSize
                          ELSE bufferSize]
WithLocalCache(l) == [l EXCEPT !.cache = TRUE]
IsLogReader(l) == l.kind = "plain" /\ l.name \in LogReaders

\* units.RAMInBytes on the configured size.
RAMInBytes(s) ==
    IF s.valid THEN [n |-> s.bytes, err |-> NoErr]
    ELSE [n |-> -1, err |-> <<"invalid size">>]

StartLogger_NoRing(cfg, created) ==
    IF cfg.Type \notin RegisteredDrivers
    THEN [l |-> NoDriver,
          err |-> <<ErrLoggingFactory, "no log driver registered">>]
    ELSE IF ~created
    THEN [l |-> NoDriver, err |-> <<"driver creation failed">>]
    ELSE LET l == PlainDriver(cfg.Type)
         IN  [l |-> IF IsLogReader(l) THEN l ELSE WithLocalCache(l),
              err |-> NoErr]

StartLogger_IgnoreSize(cfg, created) ==
    IF cfg.Type \notin RegisteredDrivers
    THEN [l |-> NoDriver,
          err |-> <<ErrLoggingFactory, "no log driver registered">>]
    ELSE IF ~created
    THEN [l |-> NoDriver, err |-> <<"driver creation failed">>]
    ELSE LET l0 == PlainDriver(cfg.Type)
             l == IF cfg.mode = LogModeNonBlock
                  THEN NewRingLogger(l0, -1) ELSE l0
         IN  [l |-> IF IsLogReader(l) THEN l ELSE WithLocalCache(l),
              err |-> NoErr]

\* Container.StartLogger: the driver for the configuration, or an error.
\* created is whether the driver's factory succeeds.
StartLogger(cfg, created) ==
    IF cfg.Type \notin RegisteredDrivers
    THEN [l |-> NoDriver,
          err |-> <<ErrLoggingFactory, "no log driver registered">>]
    ELSE IF ~created
    THEN [l |-> NoDriver, err |-> <<"driver creation failed">>]
    ELSE LET l0 == PlainDriver(cfg.Type)
             nonBlock == cfg.mode = LogModeNonBlock
             size == IF cfg.maxBufferSize.exists
                     THEN RAMInBytes(cfg.maxBufferSize)
                     ELSE [n |-> -1, err |-> NoErr]
             l == IF nonBlock THEN NewRingLogger(l0, size.n) ELSE l0
         IN  IF nonBlock /\ size.err # NoErr
             THEN [l |-> NoDriver, err |-> size.err]
             ELSE [l |-> IF IsLogReader(l) THEN l ELSE WithLocalCache(l),
                   err |-> NoErr]

\* The logging fields of a container: its configuration, the LogDriver and
\* LogCopier fields, the copier's task, and the messages on their way.
\* stalled is whether the driver behind them never takes a message.
LogsOf(cfg, stalled) ==
    [cfg |-> cfg, stalled |-> stalled,
     LogDriver |-> NoDriver, LogCopier |-> FALSE,
     copier |-> "none", err |-> NoErr,
     pipe |-> <<>>, queue |-> <<>>, delivered |-> <<>>, lost |-> <<>>,
     dropped |-> 0, produced |-> 0]

startLogging_BareError(lg, created) ==
    IF lg.cfg.Type = "none" THEN [lg EXCEPT !.err = NoErr]
    ELSE LET r == StartLogger(lg.cfg, created)
         IN  IF r.err # NoErr THEN [lg EXCEPT !.err = r.err]
             ELSE [lg EXCEPT !.LogCopier = TRUE, !.copier = "running",
                             !.LogDriver = r.l, !.err = NoErr]

\* Container.startLogging; the error it returns is left in err.
startLogging(lg, created) ==
    IF lg.cfg.Type = "none" THEN [lg EXCEPT !.err = NoErr]
    ELSE LET r == StartLogger(lg.cfg, created)
         IN  IF r.err # NoErr
             THEN [lg EXCEPT !.err = <<ErrInitLogging>> \o r.err]
             ELSE [lg EXCEPT !.LogCopier = TRUE, !.copier = "running",
                             !.LogDriver = r.l, !.err = NoErr]

\* Container.Reset: the streams are closed, the copier is waited for and the
\* driver closed, which hands what the ring still holds to a driver that
\* takes messages; both fields are cleared.
Reset(lg) ==
    [lg EXCEPT !.LogDriver = NoDriver, !.LogCopier = FALSE,
               !.copier = "none", !.pipe = <<>>, !.queue = <<>>,
               !.delivered = IF lg.stalled THEN @ ELSE @ \o lg.queue]

\* Container.InitializeStdio.
InitializeStdio(lg, created) ==
    LET r == startLogging(lg, created)
    IN  IF r.err # NoErr THEN Reset(r) ELSE r

\* The bytes a sequence of messages holds.
RECURSIVE Bytes(_)
Bytes(q) == IF q = <<>> THEN 0 ELSE Head(q).size + Bytes(Tail(q))

\* The ring drops its oldest messages until there is room for m.
RECURSIVE Evict(_, _)
Evict(q, room) ==
    IF q = <<>> \/ Bytes(q) <= room THEN [q |-> q, out |-> <<>>]
    ELSE LET e == Evict(Tail(q), room)
         IN  [q |-> e.q, out |-> <<Head(q)>> \o e.out]

\* The ring logger's Log: never waits for the driver; a message longer than
\* the whole ring is itself dropped.
Enqueue(lg, m) ==
    IF m.size > lg.LogDriver.maxSize
    THEN [lg EXCEPT !.lost = Append(@, m), !.dropped = @ + 1]
    ELSE LET e == Evict(lg.queue, lg.LogDriver.maxSize - m.size)
         IN  [lg EXCEPT !.queue = Append(e.q, m),
                        !.lost = @ \o e.out,
                        !.dropped = @ + Len(e.out)]

logVars == <<container, files, view, mgrs, cmd, killed, exitPc, stopPc,
             pc, deepCopy, ret, saved, ck, store, g>>

InitLog ==
    \E type \in LogTypes, mode \in LogModes, size \in MaxBufferSizes,
       stalled \in BOOLEAN :
        LET b == NewBaseContainer(ZeroPolicy)
        IN  /\ container = b.c
            /\ heap = b.h
            /\ files = [p \in Paths |-> NoFile]
            /\ view = NoContainer
            /\ mgrs = [s \in Slots |-> FreeMgr]
            /\ cmd = "top"
            /\ killed = FALSE
            /\ exitPc = "idle"
            /\ stopPc = "idle"
            /\ pc = "idle"
            /\ deepCopy = NoContainer
            /\ ret = "none"
            /\ saved = NoDoc
            /\ ck = NoCheckpoint([p \in Paths |-> NoFile])
            /\ logs = LogsOf([Type |-> type, mode |-> mode,
                              maxBufferSize |-> size], stalled)
            /\ store = EmptyStore
            /\ g = InitHistory

\* The daemon starts the container: the runtime calls InitializeStdio, and
\* the container is running only when that succeeded.
LogStart ==
    /\ ~Running
    /\ \E created \in BOOLEAN :
        LET lg == InitializeStdio(logs, created)
        IN  /\ logs' = lg
            /\ heap' = IF lg.err = NoErr THEN SetRunning(container, heap)
                       ELSE heap
    /\ UNCHANGED logVars

\* The process writes a message; without a copier nothing reads it.
LogProduce ==
    /\ Running
    /\ logs.produced < MaxMessages
    /\ Len(logs.pipe) < PipeCap
    /\ \E size \in 1..MaxLine :
        logs' = [logs EXCEPT
                    !.produced = @ + 1,
                    !.pipe = IF logs.copier = "none" THEN @
                             ELSE Append(@, [id |-> logs.produced + 1,
                                             size |-> size])]
    /\ UNCHANGED <<heap, logVars>>

\* The copier reads a message from the pipe and writes it to the driver: the
\* ring takes it at once, a driver takes it when it can.
CopierLog ==
    /\ logs.copier = "running"
    /\ logs.pipe # <<>>
    /\ LET m == Head(logs.pipe)
           lg == [logs EXCEPT !.pipe = Tail(@)]
       IN  logs' = IF logs.LogDriver.kind = "ring" THEN Enqueue(lg, m)
                   ELSE IF logs.stalled THEN [lg EXCEPT !.copier = "blocked"]
                   ELSE [lg EXCEPT !.delivered = Append(@, m)]
    /\ UNCHANGED <<heap, logVars>>

\* The ring hands its oldest message to the driver.
RingDeliver ==
    /\ logs.LogDriver.kind = "ring"
    /\ logs.queue # <<>>
    /\ ~logs.stalled
    /\ logs' = [logs EXCEPT !.queue = Tail(@),
                            !.delivered = Append(@, Head(logs.queue))]
    /\ UNCHANGED <<heap, logVars>>

\* The process exits once its output is read, or the wait for a blocked
\* copier times out; the exit handler resets the container.
LogStop ==
    /\ Running
    /\ logs.pipe = <<>> \/ logs.copier = "blocked"
    /\ logs' = Reset(logs)
    /\ heap' = SetStopped(container, heap, 0)
    /\ UNCHANGED logVars

NextLog ==
    \/ LogStart
    \/ LogProduce
    \/ CopierLog
    \/ RingDeliver
    \/ LogStop

SpecLog == InitLog /\ [][NextLog]_vars
FairSpecLog == SpecLog /\ WF_vars(CopierLog)

\* The last start failed: an error was returned and not yet followed by a
\* successful start.
StartFailed == logs.err # NoErr

\* C16: when creating the log driver fails during start (for an unregistered
\* driver name, a failing factory or a size that does not parse),
\* InitializeStdio returns an error whose message starts with "failed to
\* initialize logging driver", no LogDriver and no LogCopier is attached, no
\* copier runs, and the container is not running.
C16_FailedStartIsClean ==
    StartFailed =>
        /\ Head(logs.err) = ErrInitLogging
        /\ logs.LogDriver = NoDriver
        /\ ~logs.LogCopier
        /\ logs.copier = "none"
        /\ ~Running

\* A start has failed in the driver's factory after an earlier run of the
\* container whose output was logged.
C16_Witness ==
    /\ StartFailed
    /\ logs.cfg.Type = "splunk"
    /\ logs.delivered # <<>>

\* A start has failed for a driver name that is not registered.
C16_WitnessUnregistered ==
    /\ StartFailed
    /\ logs.cfg.Type = "nodriver"
    /\ logs.err = <<ErrInitLogging, ErrLoggingFactory,
                    "no log driver registered">>

\* Non-blocking mode with a max-buffer-size of RingSize bytes.
NonBlockSized ==
    /\ logs.cfg.mode = LogModeNonBlock
    /\ logs.cfg.maxBufferSize.exists
    /\ logs.cfg.maxBufferSize.valid
RingSize == logs.cfg.maxBufferSize.bytes

\* A step in which the copier has written the message at the head of the
\* pipe to the driver.
CopierWrote == logs.pipe # <<>> /\ logs'.pipe = Tail(logs.pipe)

\* C17: in non-blocking mode with a buffer of N bytes the producer is never
\* blocked by the log pipeline, even when the driver never takes a message:
\* the copier is never blocked in a write and every message in the pipe is
\* read out of it, the ring never holds more than N bytes, a write that
\* would take the ring over N bytes drops at least one message, and the drop
\* counter counts every dropped message.
C17_NeverBlocked ==
    /\ [](NonBlockSized =>
            /\ logs.copier # "blocked"
            /\ logs.LogCopier => (logs.LogDriver.kind = "ring"
                                  /\ logs.LogDriver.maxSize = RingSize)
            /\ Bytes(logs.queue) <= RingSize
            /\ logs.dropped = Len(logs.lost))
    /\ [][(NonBlockSized /\ CopierWrote) =>
            /\ logs'.dropped - logs.dropped = Len(logs'.lost) - Len(logs.lost)
            /\ (Bytes(logs.queue) + Head(logs.pipe).size > RingSize)
                    <=> (logs'.dropped > logs.dropped)]_vars
    /\ ((NonBlockSized /\ logs.pipe # <<>>) ~> (logs.pipe = <<>>))

\* The process has written all its messages to a ring in front of a driver
\* that never takes one: the ring is full and messages have been dropped.
C17_Witness ==
    /\ NonBlockSized
    /\ logs.stalled
    /\ Running
    /\ logs.produced = MaxMessages
    /\ logs.pipe = <<>>
    /\ logs.delivered = <<>>
    /\ Bytes(logs.queue) = RingSize
    /\ logs.dropped > 0

\* The messages of a sequence are in the order they were written.
InOrder(q) == \A i, j \in 1..Len(q) : i < j => q[i].id < q[j].id
Ids(q) == {q[i].id : i \in 1..Len(q)}

\* C18: in non-blocking mode, when a message arrives that the ring has no
\* room for, the oldest undelivered messages are the ones discarded and the
\* new message is kept: the ring then holds the rest of its messages followed
\* by the new one, every discarded message is older than every message kept,
\* and what reaches a driver that takes messages is, in the order written,
\* every message except the discarded ones.
C18_OldestDropped ==
    /\ [](NonBlockSized =>
            /\ InOrder(logs.delivered \o logs.queue \o logs.pipe)
            /\ \A l \in Ids(logs.lost), q \in Ids(logs.queue) : l < q
            /\ (logs.cfg.Type \in RegisteredDrivers /\ ~logs.stalled) =>
                    /\ Ids(logs.delivered) \cup Ids(logs.queue)
                          \cup Ids(logs.pipe) = (1..logs.produced)
                                                  \ Ids(logs.lost)
                    /\ Len(logs.delivered) = Cardinality(Ids(logs.delivered)))
    /\ [][(NonBlockSized /\ CopierWrote) =>
            LET m == Head(logs.pipe)
                k == Len(logs'.lost) - Len(logs.lost)
            IN  /\ (Bytes(logs.queue) + m.size > RingSize) => k > 0
                /\ k <= Len(logs.queue)
                /\ logs'.lost = logs.lost \o SubSeq(logs.queue, 1, k)
                /\ logs'.queue =
                     Append(SubSeq(logs.queue, k + 1, Len(logs.queue)), m)]_vars

\* A driver that takes messages has been given all that was written except
\* a dropped one, and has taken a message written after the dropped one.
C18_Witness ==
    /\ NonBlockSized
    /\ ~logs.stalled
    /\ logs.produced = MaxMessages
    /\ logs.pipe = <<>>
    /\ logs.queue = <<>>
    /\ logs.lost # <<>>
    /\ \E d \in Ids(logs.delivered), l \in Ids(logs.lost) : l < d
    /\ Ids(logs.delivered) = (1..MaxMessages) \ Ids(logs.lost)

\* ------------------------------------------------- Create and removal
GenerateID_NotLive(st) == ContainerIDs \ {a.ID : a \in st.live}

\* The IDs a Create may be given: random ones, which never repeat.
GenerateID(st) == ContainerIDs \ st.used

reserveName_NoCheck(names, id, name) ==
    [names |-> [names EXCEPT ![name] = id], err |-> "none"]

\* The name is reserved for the ID unless another ID holds it.
reserveName(names, id, name) ==
    IF names[name] # Nil /\ names[name] # id
    THEN [names |-> names, err |-> "conflict"]
    ELSE [names |-> [names EXCEPT ![name] = id], err |-> "none"]

\* Every name of the ID is released.
releaseName(names, id) ==
    [n \in ContainerNames |-> IF names[n] = id THEN Nil ELSE names[n]]

storeVars == <<container, heap, files, view, mgrs, cmd, killed, exitPc,
               stopPc, pc, deepCopy, ret, saved, ck, logs, g>>

InitStore ==
    /\ container = NoContainer
    /\ heap = EmptyHeap
    /\ files = [p \in Paths |-> NoFile]
    /\ view = NoContainer
    /\ mgrs = [s \in Slots |-> FreeMgr]
    /\ cmd = "top"
    /\ killed = FALSE
    /\ exitPc = "idle"
    /\ stopPc = "idle"
    /\ pc = "idle"
    /\ deepCopy = NoContainer
    /\ ret = "none"
    /\ saved = NoDoc
    /\ ck = NoCheckpoint([p \in Paths |-> NoFile])
    /\ logs = NoLogs
    /\ store = EmptyStore
    /\ g = InitHistory

\* A Create request arrives and is given its ID.
CreateCall(c) ==
    /\ store.calls[c].pc = "idle"
    /\ store.created < MaxCreates
    /\ \E name \in ContainerNames, id \in GenerateID(store) :
        store' = [store EXCEPT
                    !.used = @ \cup {id},
                    !.created = @ + 1,
                    !.calls[c] = [pc |-> "generated", name |-> name,
                                  id |-> id, serial |-> store.created + 1,
                                  result |-> "none"]]
    /\ UNCHANGED storeVars

\* The name is reserved, or the request fails with a naming conflict.
CreateReserve(c) ==
    /\ store.calls[c].pc = "generated"
    /\ LET call == store.calls[c]
           r == reserveName(store.names, call.id, call.name)
       IN  store' = IF r.err # "none"
                    THEN [store EXCEPT !.calls[c].pc = "idle",
                                       !.calls[c].result = "conflict"]
                    ELSE [store EXCEPT !.names = r.names,
                                       !.calls[c].pc = "reserved"]
    /\ UNCHANGED storeVars

\* The container's directory and initial configuration are written.
CreateWrite(c) ==
    /\ store.calls[c].pc = "reserved"
    /\ store' = [store EXCEPT !.dirs = @ \cup {store.calls[c].id},
                              !.calls[c].pc = "written"]
    /\ UNCHANGED storeVars

\* The container is registered in the store and the request returns its ID.
CreateRegister(c) ==
    /\ store.calls[c].pc = "written"
    /\ LET call == store.calls[c]
       IN  store' = [store EXCEPT
                        !.live = @ \cup {[ID |-> call.id, Name |-> call.name,
                                          serial |-> call.serial]},
                        !.calls[c].pc = "idle",
                        !.calls[c].result = "ok"]
    /\ UNCHANGED storeVars

\* A container is removed: its directory is deleted, its entry evicted from
\* the store and its name released.
Remove(a) ==
    /\ a \in store.live
    /\ store' = [store EXCEPT !.live = @ \ {a},
                              !.removed = @ \cup {a},
                              !.dirs = @ \ {a.ID},
                              !.names = releaseName(@, a.ID)]
    /\ UNCHANGED storeVars

NextStore ==
    \/ \E c \in Callers : CreateCall(c)
    \/ \E c \in Callers : CreateReserve(c)
    \/ \E c \in Callers : CreateWrite(c)
    \/ \E c \in Callers : CreateRegister(c)
    \/ \E a \in store.live : Remove(a)

SpecStore == InitStore /\ [][NextStore]_vars

ReserveStep(c) ==
    /\ store.calls[c].pc = "generated"
    /\ store'.calls[c].pc # "generated"

\* The containers and Creates in progress that hold name n.
Holders(n) ==
    {a.serial : a \in {b \in store.live : b.Name = n}}
    \cup {store.calls[c].serial :
            c \in {d \in Callers : /\ store.calls[d].pc \in {"reserved", "written"}
                                   /\ store.calls[d].name = n}}

IdLen == 3
HexDigits == {"a", "b"}
RECURSIVE Strings(_)
Strings(n) ==
    IF n = 0 THEN {<<>>}
    ELSE LET shorter == Strings(n - 1)
         IN  shorter \cup {Append(t, d) : t \in {u \in shorter : Len(u) = n - 1},
                                          d \in HexDigits}
FullIDs == {t \in Strings(IdLen) : Len(t) = IdLen}
HasPrefix(id, p) == Len(p) <= Len(id) /\ SubSeq(id, 1, Len(p)) = p

NoResult == [status |-> "none", id |-> <<>>]

RECURSIVE ScanFirst(_, _)
ScanFirst(ids, p) ==
    IF ids = {} THEN [status |-> "notfound", id |-> <<>>]
    ELSE LET x == CHOOSE y \in ids : TRUE
         IN  IF HasPrefix(x, p) THEN [status |-> "ok", id |-> x]
             ELSE ScanFirst(ids \ {x}, p)
GetByPrefix_FirstMatch(ids, p) == ScanFirst(ids, p)

\* The index is walked for the IDs that start with p: a second one ends the
\* walk with the Ambiguous error.
RECURSIVE Scan(_, _, _)
Scan(ids, p, found) ==
    IF ids = {}
    THEN (IF found = <<>> THEN [status |-> "notfound", id |-> <<>>]
          ELSE [status |-> "ok", id |-> found])
    ELSE LET x == CHOOSE y \in ids : TRUE
         IN  IF ~HasPrefix(x, p) THEN Scan(ids \ {x}, p, found)
             ELSE IF found # <<>> THEN [status |-> "ambiguous", id |-> <<>>]
             ELSE Scan(ids \ {x}, p, x)
GetByPrefix(ids, p) == Scan(ids, p, <<>>)

\* No container is loaded and nothing is in progress.
InitNoContainer ==
    /\ container = NoContainer
    /\ heap = EmptyHeap
    /\ files = [p \in Paths |-> NoFile]
    /\ view = NoContainer
    /\ mgrs = [s \in Slots |-> FreeMgr]
    /\ cmd = "top"
    /\ killed = FALSE
    /\ exitPc = "idle"
    /\ stopPc = "idle"
    /\ pc = "idle"
    /\ deepCopy = NoContainer
    /\ ret = "none"
    /\ saved = NoDoc
    /\ ck = NoCheckpoint([p \in Paths |-> NoFile])
    /\ logs = NoLogs
    /\ g = InitHistory

InitLookup ==
    /\ InitNoContainer
    /\ store = [index |-> {}, query |-> <<>>, result |-> NoResult]

\* A container is added to the store, or deleted from it.
IndexAdd ==
    /\ Cardinality(store.index) < MaxCreates
    /\ \E id \in FullIDs \ store.index :
        store' = [index |-> store.index \cup {id}, query |-> <<>>,
                  result |-> NoResult]
    /\ UNCHANGED storeVars

IndexDelete ==
    /\ \E id \in store.index :
        store' = [index |-> store.index \ {id}, query |-> <<>>,
                  result |-> NoResult]
    /\ UNCHANGED storeVars

\* A request looks a container up by a reference.
Lookup ==
    /\ \E p \in Strings(IdLen) :
        store' = [store EXCEPT !.query = p,
                               !.result = GetByPrefix(store.index, p)]
    /\ UNCHANGED storeVars

NextLookup == IndexAdd \/ IndexDelete \/ Lookup
SpecLookup == InitLookup /\ [][NextLookup]_vars

Matches == {id \in store.index : HasPrefix(id, store.query)}

\* C21: a lookup by prefix returns the container whose ID starts with the
\* prefix when exactly one stored ID does, the Not Found error when none
\* does and the Ambiguous error when two or more do; it never returns one of
\* several matching containers.
C21_GetByPrefix ==
    store.result.status # "none" =>
        /\ Cardinality(Matches) = 1 =>
                store.result = [status |-> "ok", id |-> CHOOSE id \in Matches : TRUE]
        /\ Cardinality(Matches) = 0 => store.result.status = "notfound"
        /\ Cardinality(Matches) >= 2 => store.result.status = "ambiguous"
        /\ store.result.status \in {"ok", "notfound", "ambiguous"}

\* Two stored IDs share the prefix looked up, and the lookup has reported it
\* as ambiguous, while a third ID does not match.
C21_Witness ==
    /\ store.result.status = "ambiguous"
    /\ Len(store.query) = IdLen - 1
    /\ Cardinality(Matches) = 2
    /\ Cardinality(store.index) = 3

\* ------------------------------------------------------ start and removal
\* One container's State (phase, Pid, ExitCode, StartedAt, FinishedAt),
\* whether its task is active, who holds its lock, how the last Start and the
\* last Remove ended, the last step taken on it and the exit code of the last
\* exit event.  Times are the number of
\* the event; the Pid of a task is the number of the task.
MaxTasks == 2
NewEntry(tasks, clock) ==
    [phase |-> "created", Pid |-> 0, ExitCode |-> 0, StartedAt |-> 0,
     FinishedAt |-> 0, task |-> FALSE, lock |-> "free", force |-> FALSE,
     start |-> "none", remove |-> "none", last |-> "create", event |-> 0,
     tasks |-> tasks, clock |-> clock]

InitRemove ==
    /\ InitNoContainer
    /\ store = NewEntry(0, 0)

SetRunningAt_NoPid(e, pid, now) ==
    [e EXCEPT !.phase = "running", !.StartedAt = now]

\* State.SetRunning: Running with the task's Pid and the start time.
SetRunningAt(e, pid, now) ==
    [e EXCEPT !.phase = "running", !.Pid = pid, !.StartedAt = now,
              !.ExitCode = 0]

\* State.SetStopped: not running, the Pid cleared, the exit status recorded.
SetStoppedAt(e, code, now) ==
    [e EXCEPT !.phase = "exited", !.Pid = 0, !.ExitCode = code,
              !.FinishedAt = now]

RemoveAttempt_NoCheck(e, force) ==
    [e EXCEPT !.phase = "removing", !.remove = "removing", !.force = force]

\* Remove takes the container's lock: a running container is refused with a
\* Conflict unless forced, and is then killed first; a container at rest
\* goes to Removing.
RemoveAttempt(e, force) ==
    IF e.phase = "running"
    THEN (IF force THEN [e EXCEPT !.lock = "remove", !.force = TRUE,
                                  !.remove = "killing"]
          ELSE [e EXCEPT !.remove = "conflict", !.force = FALSE])
    ELSE [e EXCEPT !.phase = "removing", !.remove = "removing",
                   !.force = force]

StartAttempt_IgnoreRemoving(e) ==
    IF e.phase = "running" THEN [e EXCEPT !.start = "conflict"]
    ELSE [e EXCEPT !.lock = "start", !.start = "starting"]

\* Start takes the container's lock: a container that is running, in
\* Removing or removed is refused with a Conflict.
StartAttempt(e) ==
    IF e.phase \in {"running", "removing", "removed"}
    THEN [e EXCEPT !.start = "conflict"]
    ELSE [e EXCEPT !.lock = "start", !.start = "starting"]

StartRequest ==
    /\ store.lock = "free"
    /\ store.tasks < MaxTasks
    /\ store' = [StartAttempt(store) EXCEPT !.last = "start"]
    /\ UNCHANGED storeVars

\* The task is created and started, and the container is Running; or the
\* task cannot be started, and the container stays as it was.
StartTask ==
    /\ store.lock = "start"
    /\ \E started \in BOOLEAN :
        store' =
          IF started
          THEN [SetRunningAt(store, store.tasks + 1, store.clock + 1)
                  EXCEPT !.task = TRUE, !.lock = "free", !.start = "ok",
                         !.last = "task", !.tasks = @ + 1, !.clock = @ + 1]
          ELSE [store EXCEPT !.lock = "free", !.start = "error",
                             !.last = "task", !.tasks = @ + 1]
    /\ UNCHANGED storeVars

RemoveRequest ==
    /\ store.lock = "free"
    /\ store.phase \notin {"removing", "removed"}
    /\ \E force \in BOOLEAN :
        store' = [RemoveAttempt(store, force) EXCEPT !.last = "remove"]
    /\ UNCHANGED storeVars

\* The exit event of the task, which exited by itself or was killed by a
\* forced Remove; the Remove then puts the container in Removing.
TaskExit ==
    /\ store.task
    /\ store.lock # "start"
    /\ \E code \in ExitCodes :
        LET e == [SetStoppedAt(store, code, store.clock + 1)
                    EXCEPT !.task = FALSE, !.clock = @ + 1, !.last = "exit",
                           !.event = code]
        IN  store' = IF store.lock = "remove"
                     THEN [e EXCEPT !.phase = "removing", !.lock = "free",
                                    !.remove = "removing"]
                     ELSE e
    /\ UNCHANGED storeVars

\* The directory is deleted and the entry evicted.
RemoveFinish ==
    /\ store.phase = "removing"
    /\ store.lock = "free"
    /\ store' = [store EXCEPT !.phase = "removed", !.remove = "ok",
                              !.last = "finish"]
    /\ UNCHANGED storeVars

NextRemove ==
    \/ StartRequest
    \/ StartTask
    \/ RemoveRequest
    \/ TaskExit
    \/ RemoveFinish

SpecRemove == InitRemove /\ [][NextRemove]_vars

\* C22: a container is never in Removing or removed while its task is
\* active; a Remove without force on a running container fails with a
\* Conflict and changes nothing; and a Start on a container in Removing
\* fails with a Conflict and starts no task, whatever the interleaving.
C22_NoRemoveWhileActive ==
    /\ [](store.phase \in {"removing", "removed"} => ~store.task)
    /\ [][(store.phase = "running" /\ store'.last = "remove"
             /\ ~store'.force) =>
            store' = [store EXCEPT !.remove = "conflict", !.force = FALSE,
                                   !.last = "remove"]]_vars
    /\ [][(store.phase = "running" /\ store'.phase \in {"removing", "removed"})
            => (store.force /\ store.task /\ ~store'.task)]_vars
    /\ [][(store.phase \in {"removing", "removed"}
             /\ store'.last \in {"start", "task"}) =>
            store' = [store EXCEPT !.start = "conflict",
                                   !.last = "start"]]_vars

\* The container ran once and exited, a Remove without force put it in
\* Removing, and a Start on it was then refused.
C22_Witness ==
    /\ store.phase = "removing"
    /\ store.start = "conflict"
    /\ store.last = "start"
    /\ store.tasks = 1
    /\ store.FinishedAt > 0
    /\ ~store.force

\* A Remove without force was refused on the running container.
C22_WitnessRunning ==
    /\ store.phase = "running"
    /\ store.task
    /\ store.remove = "conflict"

\* C23: a Running container always has a non-zero Pid; a successful start
\* makes the container Running with the Pid of its task and StartedAt
\* recorded; the exit event makes it not Running with the event's ExitCode
\* and FinishedAt recorded and the Pid cleared; and a later start makes it
\* Running again, with the Pid of the new task.
C23_StateFields ==
    /\ []((store.phase = "running") => (store.Pid # 0 /\ store.task))
    /\ []((store.phase # "running") => store.Pid = 0)
    /\ [][(store'.last = "task" /\ store'.start = "ok"
             /\ store'.tasks # store.tasks) =>
            /\ store'.phase = "running"
            /\ store'.Pid = store'.tasks
            /\ store'.Pid # 0
            /\ store'.StartedAt = store'.clock
            /\ store'.StartedAt > store.FinishedAt]_vars
    /\ [][(store'.last = "exit" /\ store'.clock # store.clock) =>
            /\ store.phase = "running"
            /\ store'.phase # "running"
            /\ store'.ExitCode = store'.event
            /\ store'.FinishedAt = store'.clock
            /\ store'.FinishedAt > store.StartedAt
            /\ store'.Pid = 0]_vars

\* The container ran, exited with a non-zero code, and was started again: it
\* is Running with the Pid of its second task.
C23_Witness ==
    /\ store.phase = "running"
    /\ store.tasks = MaxTasks
    /\ store.Pid = MaxTasks
    /\ store.event # 0
    /\ store.FinishedAt > 0
    /\ store.StartedAt > store.FinishedAt

\* ------------------------------------------- the exit, durable first
\* The State a daemon started after a crash would load from the directory.
DurableState ==
    LET l == FromDisk(files)
    IN  IF l.status = "ok" THEN l.h[l.c.State] ELSE StateObj("unreadable", 0)

Goroutines == {"g1", "g2"}
StoreOps == {"lookup", "add", "delete", "mutate"}
LockState ==
    [storeLock |-> "none", ctrLock |-> "none",
     pc |-> [r \in Goroutines |-> "idle"],
     op |-> [r \in Goroutines |-> "none"],
     err |-> [r \in Goroutines |-> "none"],
     got |-> [r \in Goroutines |-> "nil"],
     present |-> TRUE, Running |-> FALSE, ctr |-> "nil", task |-> "nil"]

InitLocks ==
    /\ InitNoContainer
    /\ store = LockState

RestoreTask_UnlockOnSuccess(st, r, loaded, attached) ==
    IF ~loaded
    THEN [st EXCEPT !.ctr = "nil", !.err[r] = "notfound", !.pc[r] = "idle"]
    ELSE IF attached = "err"
    THEN [st EXCEPT !.ctr = "handle", !.task = "nil", !.err[r] = "err",
                    !.pc[r] = "idle"]
    ELSE [st EXCEPT !.ctr = "handle",
                    !.task = IF attached = "ok" THEN "task" ELSE "nil",
                    !.err[r] = "nil", !.pc[r] = "idle",
                    !.ctrLock = "none"]

\* Container.RestoreTask after its Lock: the containerd container is loaded
\* and its task attached; the deferred Unlock runs on each return.
RestoreTask(st, r, loaded, attached) ==
    IF ~loaded
    THEN [st EXCEPT !.ctr = "nil", !.err[r] = "notfound", !.pc[r] = "idle",
                    !.ctrLock = "none"]
    ELSE IF attached = "err"
    THEN [st EXCEPT !.ctr = "handle", !.task = "nil", !.err[r] = "err",
                    !.pc[r] = "idle", !.ctrLock = "none"]
    ELSE [st EXCEPT !.ctr = "handle",
                    !.task = IF attached = "ok" THEN "task" ELSE "nil",
                    !.err[r] = "nil", !.pc[r] = "idle",
                    !.ctrLock = "none"]

\* A request begins: those that go through the Store want its lock, the
\* restore of a container's task wants the container's.
Begin(r) ==
    /\ store.pc[r] = "idle"
    /\ \E o \in StoreOps \cup {"restore", "task"} :
        store' = [store EXCEPT !.op[r] = o, !.err[r] = "none",
                     !.got[r] = "nil",
                     !.pc[r] = IF o \in {"restore", "task"} THEN "wantCtr"
                               ELSE "wantStore"]
    /\ UNCHANGED storeVars

StoreLock(r) ==
    /\ store.pc[r] = "wantStore"
    /\ store.storeLock = "none"
    /\ store' = [store EXCEPT !.storeLock = r, !.pc[r] = "inStore"]
    /\ UNCHANGED storeVars

\* The Store's map is read or changed and its lock released; a mutation
\* goes on to the container it found.
StoreUnlock(r) ==
    /\ store.pc[r] = "inStore"
    /\ LET o == store.op[r]
           found == store.present
       IN  store' = [store EXCEPT
                !.storeLock = "none",
                !.present = IF o = "add" THEN TRUE
                            ELSE IF o = "delete" THEN FALSE ELSE @,
                !.err[r] = IF o \in {"lookup", "mutate"} /\ ~found
                           THEN "notfound" ELSE "nil",
                !.pc[r] = IF o = "mutate" /\ found THEN "wantCtr"
                          ELSE "idle"]
    /\ UNCHANGED storeVars

ContainerLock(r) ==
    /\ store.pc[r] = "wantCtr"
    /\ store.ctrLock = "none"
    /\ store' = [store EXCEPT !.ctrLock = r, !.pc[r] = "inCtr"]
    /\ UNCHANGED storeVars

\* The container is started or stopped under its lock, which is then
\* released.
ContainerUnlock(r) ==
    /\ store.pc[r] = "inCtr"
    /\ store.op[r] = "mutate"
    /\ store' = [store EXCEPT !.ctrLock = "none", !.Running = ~@,
                              !.pc[r] = "idle"]
    /\ UNCHANGED storeVars

GetRunningTask_NoTaskCheck(st) ==
    IF ~st.Running THEN [task |-> "nil", err |-> "conflict"]
    ELSE [task |-> st.task, err |-> "nil"]

\* Container.GetRunningTask, called with the container's lock held.
GetRunningTask(st) ==
    IF ~st.Running THEN [task |-> "nil", err |-> "conflict"]
    ELSE IF st.task = "nil" THEN [task |-> "nil", err |-> "system"]
    ELSE [task |-> st.task, err |-> "nil"]

\* A handler that needs the task asks for it and releases the lock.
GetRunningTaskReturn(r) ==
    /\ store.pc[r] = "inCtr"
    /\ store.op[r] = "task"
    /\ LET t == GetRunningTask(store)
       IN  store' = [store EXCEPT !.err[r] = t.err, !.got[r] = t.task,
                                  !.ctrLock = "none", !.pc[r] = "idle"]
    /\ UNCHANGED storeVars

RestoreTaskReturn(r) ==
    /\ store.pc[r] = "inCtr"
    /\ store.op[r] = "restore"
    /\ \E loaded \in BOOLEAN, attached \in {"ok", "notfound", "err"} :
        store' = RestoreTask(store, r, loaded, attached)
    /\ UNCHANGED storeVars

NextLocks ==
    \/ \E r \in Goroutines : Begin(r)
    \/ \E r \in Goroutines : StoreLock(r)
    \/ \E r \in Goroutines : StoreUnlock(r)
    \/ \E r \in Goroutines : ContainerLock(r)
    \/ \E r \in Goroutines : ContainerUnlock(r)
    \/ \E r \in Goroutines : RestoreTaskReturn(r)
    \/ \E r \in Goroutines : GetRunningTaskReturn(r)

SpecLocks == InitLocks /\ [][NextLocks]_vars

\* The goroutine waits for a lock that another one holds.
Waits(r) ==
    \/ store.pc[r] = "wantStore" /\ store.storeLock # "none"
    \/ store.pc[r] = "wantCtr" /\ store.ctrLock # "none"
Holds(r) == store.storeLock = r \/ store.ctrLock = r

\* C26: no goroutine holds the Store's lock while it takes or holds a
\* container's lock, a goroutine that has returned holds no lock (RestoreTask
\* releases the container's on every return path), and so the requests never
\* deadlock: a held lock is held by a goroutine that is not waiting.
C26_LockOrder ==
    /\ \A r \in Goroutines :
        /\ store.storeLock = r =>
                (store.ctrLock # r /\ store.pc[r] = "inStore")
        /\ store.pc[r] = "idle" => ~Holds(r)
        /\ store.ctrLock = r => store.pc[r] = "inCtr"
    /\ \A l \in {store.storeLock, store.ctrLock} :
        l # "none" => ~Waits(l)
    /\ (\E r \in Goroutines : store.pc[r] # "idle")
            => (\E r \in Goroutines : store.pc[r] # "idle" /\ ~Waits(r))

\* RestoreTask has returned an error to one goroutine, and the other one,
\* which found the container in the Store, holds the container's lock.
C26_Witness ==
    \E r, q \in Goroutines :
        /\ store.op[r] = "restore" /\ store.pc[r] = "idle"
        /\ store.err[r] = "err"
        /\ store.op[q] = "mutate" /\ store.ctrLock = q
        /\ store.storeLock = "none"

\* C27: GetRunningTask returns a Conflict error exactly when the container is
\* not Running, a System error exactly when it is Running with no task set,
\* and otherwise the task with a nil error; it changes nothing of the
\* container.
C27_GetRunningTask ==
    [][\A r \in Goroutines :
        (store.op[r] = "task" /\ store.pc[r] = "inCtr"
            /\ store'.pc[r] = "idle") =>
            /\ (store'.err[r] = "conflict") <=> ~store.Running
            /\ (store'.err[r] = "system")
                    <=> (store.Running /\ store.task = "nil")
            /\ (store'.err[r] = "nil")
                    <=> (store.Running /\ store.task # "nil")
            /\ store'.err[r] \in {"conflict", "system", "nil"}
            /\ store'.got[r] =
                    IF store'.err[r] = "nil" THEN store.task ELSE "nil"
            /\ <<store'.Running, store'.task, store'.ctr, store'.present>>
                 = <<store.Running, store.task, store.ctr, store.present>>]_vars

\* A container Running with no task set, as after a restore that found no
\* task, has answered with the System error.
C27_Witness ==
    \E r \in Goroutines :
        /\ store.op[r] = "task" /\ store.pc[r] = "idle"
        /\ store.err[r] = "system"
        /\ store.Running
        /\ store.ctr = "handle"
        /\ store.task = "nil"

\* ---------------------------------------------------------- ContainerStats
\* One ContainerStats request: whether the container exists and its phase,
\* the Stream and OneShot options, where the request is, the frames written
\* to the output stream, the subscription to the stats collector, and the
\* error returned.
MaxFrames == 2
CPUReadings == {1, 2}
ReadTimes == {1, 2}
\* A sample of the collector: the CPU reading and the time it was read.
Samples == [CPUStats : CPUReadings, Read : ReadTimes]
\* A StatsResponse: empty but for the name and ID, or a sample with the CPU
\* reading and the time of the sample before.
EmptyFrame ==
    [kind |-> "empty", CPUStats |-> 0, Read |-> 0, PreCPUStats |-> 0,
     PreRead |-> 0]
StatsFrame(v, preCPUStats, preRead) ==
    [kind |-> "stats", CPUStats |-> v.CPUStats, Read |-> v.Read,
     PreCPUStats |-> preCPUStats, PreRead |-> preRead]

\* The channels the collector hands out, and no channel.  The collector's
\* subscribers are the channels of the request followed (updates) and of
\* the other requests in progress (others).
Channels == {"ch1", "ch2"}
NoChannel == "nil"

\* The errors of a collection step: none, the two kinds that stand for a
\* container that is not running or not there, and any other.
StepErrors == {"nil", "Conflict", "NotFound", "other"}
NoCollection ==
    [statsErr |-> "nil", cpuErr |-> "nil", NetworkDisabled |-> FALSE,
     netErr |-> "nil", v |-> [CPUStats |-> 0, Read |-> 0],
     stats |-> "nil", frame |-> EmptyFrame, SystemUsage |-> FALSE,
     Networks |-> FALSE, err |-> "nil"]

\* GetContainerStats taking every failure for an error to return.
GetContainerStats_EveryError(v, statsErr, cpuErr, networkDisabled, netErr) ==
    LET in == [NoCollection EXCEPT !.statsErr = statsErr, !.cpuErr = cpuErr,
                                   !.NetworkDisabled = networkDisabled,
                                   !.netErr = netErr, !.v = v]
        network == ~networkDisabled /\ HostOS # "windows"
        err == IF statsErr # "nil" THEN statsErr
               ELSE IF cpuErr # "nil" THEN cpuErr
               ELSE IF network THEN netErr
               ELSE "nil"
    IN  IF err = "nil"
        THEN [in EXCEPT !.stats = "collected",
                        !.frame = StatsFrame(v, 0, 0),
                        !.SystemUsage = TRUE, !.Networks = network]
        ELSE [in EXCEPT !.err = err]

\* Daemon.GetContainerStats: the container's stats, then the system CPU
\* usage, then, unless networking is disabled or the host is Windows, the
\* network stats; the first error ends the collection.  No error returns
\* the stats, a Conflict or NotFound error a response with the name and ID
\* only, any other error no stats and the error.
GetContainerStats(v, statsErr, cpuErr, networkDisabled, netErr) ==
    LET in == [NoCollection EXCEPT !.statsErr = statsErr, !.cpuErr = cpuErr,
                                   !.NetworkDisabled = networkDisabled,
                                   !.netErr = netErr, !.v = v]
        network == ~networkDisabled /\ HostOS # "windows"
        err == IF statsErr # "nil" THEN statsErr
               ELSE IF cpuErr # "nil" THEN cpuErr
               ELSE IF network THEN netErr
               ELSE "nil"
    IN  IF err = "nil"
        THEN [in EXCEPT !.stats = "collected",
                        !.frame = StatsFrame(v, 0, 0),
                        !.SystemUsage = TRUE, !.Networks = network]
        ELSE IF err \in {"Conflict", "NotFound"}
        THEN [in EXCEPT !.stats = "empty", !.frame = EmptyFrame]
        ELSE [in EXCEPT !.err = err]

StatsCall(found, phase, stream, oneShot) ==
    [found |-> found, phase |-> phase, Stream |-> stream, OneShot |-> oneShot,
     pc |-> "called", encoded |-> <<>>, written |-> <<>>, subscribed |-> FALSE,
     subscriptions |-> 0, noStreamFirstFrame |-> FALSE, preCPUStats |-> 0,
     preRead |-> 0, samples |-> <<>>, err |-> "none", ended |-> "none",
     updates |-> NoChannel, collector |-> {}, others |-> {},
     collected |-> 0,
     collect |-> NoCollection]
NoStatsCall == [StatsCall(FALSE, "exited", FALSE, FALSE) EXCEPT !.pc = "idle"]

InitStats ==
    /\ InitNoContainer
    /\ store = NoStatsCall

\* A return of ContainerStats.
StatsReturn(q, err, ended) ==
    [q EXCEPT !.pc = "done", !.err = err, !.ended = ended]

\* enc.Encode(ss): the response is handed to the encoder, which writes it to
\* the output stream unless the stream fails (encOk).
Encode(q, ss, encOk) ==
    [q EXCEPT !.encoded = Append(@, ss),
              !.written = IF encOk THEN Append(@, ss) ELSE @]
EncodeErr(encOk) == IF encOk THEN "nil" ELSE "error"

\* subscribeToContainerStats: the collector hands out a channel of its own.
subscribeToContainerStats(q) ==
    LET ch == CHOOSE c \in Channels : c \notin q.collector
    IN  [q EXCEPT !.updates = ch, !.collector = @ \cup {ch},
                  !.subscribed = TRUE, !.subscriptions = @ + 1]

\* An unsubscribe that leaves the collector as it is.
unsubscribeToContainerStats_Skip(q) == [q EXCEPT !.subscribed = FALSE]

\* unsubscribeToContainerStats, deferred in ContainerStats with the channel
\* of the subscription.
unsubscribeToContainerStats(q) ==
    [q EXCEPT !.collector = @ \ {q.updates}, !.subscribed = FALSE]

ContainerStats_NoValidation(q, r, encOk) ==
    IF ~q.found THEN StatsReturn(q, "NotFound", "lookup")
    ELSE IF q.phase # "running" /\ ~q.Stream
    THEN StatsReturn(Encode(q, EmptyFrame, encOk), EncodeErr(encOk),
                     "not running")
    ELSE IF q.OneShot
    THEN (IF r.err = "nil"
          THEN StatsReturn(Encode([q EXCEPT !.collected = @ + 1,
                                            !.collect = r], r.frame, encOk),
                           EncodeErr(encOk), "one shot")
          ELSE StatsReturn([q EXCEPT !.collected = @ + 1, !.collect = r],
                           r.err, "one shot"))
    ELSE [subscribeToContainerStats(q) EXCEPT
             !.pc = "loop", !.noStreamFirstFrame = ~q.OneShot]

\* ContainerStats asking for the one-shot stats before looking at whether
\* the container runs.
ContainerStats_OneShotFirst(q, r, encOk) ==
    IF ~q.found THEN StatsReturn(q, "NotFound", "lookup")
    ELSE IF q.Stream /\ q.OneShot
    THEN StatsReturn(q, "InvalidParameter", "validation")
    ELSE IF q.OneShot
    THEN (IF r.err = "nil"
          THEN StatsReturn(Encode([q EXCEPT !.collected = @ + 1,
                                            !.collect = r], r.frame, encOk),
                           EncodeErr(encOk), "one shot")
          ELSE StatsReturn([q EXCEPT !.collected = @ + 1, !.collect = r],
                           r.err, "one shot"))
    ELSE IF q.phase # "running" /\ ~q.Stream
    THEN StatsReturn(Encode(q, EmptyFrame, encOk), EncodeErr(encOk),
                     "not running")
    ELSE [subscribeToContainerStats(q) EXCEPT
             !.pc = "loop", !.noStreamFirstFrame = ~q.OneShot]

\* Daemon.ContainerStats up to its loop: the container is looked up, the
\* options are validated, a container that is not running (or is restarting)
\* gets an empty frame, a one-shot request the current stats, and any other
\* request subscribes to the collector.  r is what GetContainerStats
\* returns when it is called, encOk whether the output stream takes what
\* the encoder writes.
ContainerStats(q, r, encOk) ==
    IF ~q.found THEN StatsReturn(q, "NotFound", "lookup")
    ELSE IF q.Stream /\ q.OneShot
    THEN StatsReturn(q, "InvalidParameter", "validation")
    ELSE IF q.phase # "running" /\ ~q.Stream
    THEN StatsReturn(Encode(q, EmptyFrame, encOk), EncodeErr(encOk),
                     "not running")
    ELSE IF q.OneShot
    THEN (IF r.err = "nil"
          THEN StatsReturn(Encode([q EXCEPT !.collected = @ + 1,
                                            !.collect = r], r.frame, encOk),
                           EncodeErr(encOk), "one shot")
          ELSE StatsReturn([q EXCEPT !.collected = @ + 1, !.collect = r],
                           r.err, "one shot"))
    ELSE [subscribeToContainerStats(q) EXCEPT
             !.pc = "loop", !.noStreamFirstFrame = ~q.OneShot]

\* A request arrives while other requests hold some of the collector's
\* channels.
StatsRequest ==
    /\ store.pc \in {"idle", "done"}
    /\ \E found, stream, oneShot \in BOOLEAN,
          phase \in {"running", "restarting", "exited"},
          others \in SUBSET Channels :
        /\ others # Channels
        /\ store' = [StatsCall(found, phase, stream, oneShot) EXCEPT
                        !.collector = others, !.others = others]
    /\ UNCHANGED storeVars

StatsBegin ==
    /\ store.pc = "called"
    /\ Channels \ store.collector # {}
    /\ \E v \in Samples, statsErr, cpuErr, netErr \in StepErrors,
          networkDisabled, encOk \in BOOLEAN :
        store' = ContainerStats(store,
                     GetContainerStats(v, statsErr, cpuErr, networkDisabled,
                                       netErr), encOk)
    /\ UNCHANGED storeVars

\* getStatJSON leaving the previous sample out of the response.
getStatJSON_NoPre(q, v) ==
    [ss |-> StatsFrame(v, 0, 0),
     q |-> [q EXCEPT !.preCPUStats = v.CPUStats, !.preRead = v.Read,
                     !.samples = Append(@, v)]]

\* getStatJSON: the response for a sample carries the CPU reading and the
\* time of the sample before, and the sample becomes the previous one.
getStatJSON(q, v) ==
    [ss |-> StatsFrame(v, q.preCPUStats, q.preRead),
     q |-> [q EXCEPT !.preCPUStats = v.CPUStats, !.preRead = v.Read,
                     !.samples = Append(@, v)]]

\* An update arrives from the collector: the first one of a request without
\* stream only primes the CPU stats, the others are written unless the
\* encoder fails (encOk), and a request without stream returns after its
\* frame.  Every return runs the deferred unsubscribe.
StatsUpdate ==
    /\ store.pc = "loop"
    /\ Len(store.written) < MaxFrames
    /\ \E v \in Samples, encOk \in BOOLEAN :
        LET statsJSON == getStatJSON(store, v)
            frame == statsJSON.ss
            q == statsJSON.q
        IN  store' =
              IF ~store.Stream /\ store.noStreamFirstFrame
              THEN [q EXCEPT !.noStreamFirstFrame = FALSE]
              ELSE IF ~encOk
              THEN StatsReturn(unsubscribeToContainerStats(
                                   Encode(q, frame, encOk)),
                               EncodeErr(encOk), "encode error")
              ELSE IF ~store.Stream
              THEN StatsReturn(unsubscribeToContainerStats(
                                   Encode(q, frame, encOk)),
                               "nil", "frame written")
              ELSE Encode(q, frame, encOk)
    /\ UNCHANGED storeVars

\* The collector closes the channel, or the request's context ends; the
\* deferred unsubscribe runs.
StatsEnd ==
    /\ store.pc = "loop"
    /\ \E ended \in {"updates closed", "context done"} :
        store' = StatsReturn(unsubscribeToContainerStats(store), "nil", ended)
    /\ UNCHANGED storeVars

NextStats ==
    \/ StatsRequest
    \/ StatsBegin
    \/ StatsUpdate
    \/ StatsEnd

SpecStats == InitStats /\ [][NextStats]_vars

\* C28: a ContainerStats request for an existing container with both
\* stream and one-shot set returns the InvalidParameter error, writes
\* nothing to the output stream and never subscribes to the collector.
C28_StreamAndOneShot ==
    (store.found /\ store.Stream /\ store.OneShot /\ store.pc # "called") =>
        /\ store.pc = "done"
        /\ store.err = "InvalidParameter"
        /\ store.written = <<>>
        /\ ~store.subscribed
        /\ store.subscriptions = 0

\* Such a request on a running container has returned.
C28_Witness ==
    /\ store.found /\ store.Stream /\ store.OneShot
    /\ store.phase = "running"
    /\ store.pc = "done"
    /\ store.err = "InvalidParameter"

\* ------------------------------------------------- plugin exit events
\* The plugin manager's controller of one plugin, and the goroutines that
\* deliver exit events for it.  exitChan is the controller's field, "chan"
\* for the channel made with the controller and "nil" once cleared; closed
\* and closes are the channel's state and the number of close calls made on
\* it; readers are the holders of pm.mu's read lock; panicked is the process
\* after a close that panics.  seen is the value each handler's test read,
\* events the number of exit events each goroutine has delivered.
MaxEvents == 2
NewController(restart) ==
    [exitChan |-> "chan", restart |-> restart, closed |-> FALSE, closes |-> 0,
     panicked |-> "none", readers |-> {},
     pc |-> [r \in Goroutines |-> "idle"],
     seen |-> [r \in Goroutines |-> "nil"],
     events |-> [r \in Goroutines |-> 0]]

InitExit ==
    /\ InitNoContainer
    /\ \E restart \in BOOLEAN : store = NewController(restart)

\* An exit event reaches HandleExitEvent: the plugin is found and its bundle
\* directory removed.  The events of a goroutine after its first are
\* duplicates.
HandleExitEvent(r) ==
    /\ store.panicked = "none"
    /\ store.pc[r] = "idle"
    /\ store.events[r] < MaxEvents
    /\ store' = [store EXCEPT !.pc[r] = "RLock", !.events[r] = @ + 1]
    /\ UNCHANGED storeVars

\* pm.mu.RLock(): a read lock, which any number of readers hold together.
RLock(r) ==
    /\ store.panicked = "none"
    /\ store.pc[r] = "RLock"
    /\ store' = [store EXCEPT !.pc[r] = "test", !.readers = @ \cup {r}]
    /\ UNCHANGED storeVars

\* if c.exitChan != nil
TestExitChan(r) ==
    /\ store.panicked = "none"
    /\ store.pc[r] = "test"
    /\ store' = [store EXCEPT !.seen[r] = store.exitChan,
                              !.pc[r] = IF store.exitChan # "nil"
                                        THEN "close" ELSE "RUnlock"]
    /\ UNCHANGED storeVars

\* close(ch) of a nil channel or of a closed channel panics.
close(st, ch) ==
    IF ch = "nil" THEN [st EXCEPT !.panicked = "close of nil channel"]
    ELSE IF st.closed
    THEN [st EXCEPT !.closes = @ + 1,
                    !.panicked = "close of closed channel"]
    ELSE [st EXCEPT !.closed = TRUE, !.closes = @ + 1]

\* close(c.exitChan): the operand is the field read again, or the value the
\* test read, as the compiler chose; the field is written by other handlers
\* under the same read lock.
CloseExitChan(r) ==
    /\ store.panicked = "none"
    /\ store.pc[r] = "close"
    /\ \E ch \in {store.exitChan, store.seen[r]} :
        store' = [close(store, ch) EXCEPT !.pc[r] = "clear"]
    /\ UNCHANGED storeVars

\* c.exitChan = nil
ClearExitChan(r) ==
    /\ store.panicked = "none"
    /\ store.pc[r] = "clear"
    /\ store' = [store EXCEPT !.exitChan = "nil", !.pc[r] = "RUnlock"]
    /\ UNCHANGED storeVars

\* restart := c.restart; pm.mu.RUnlock().  What follows, the restart of the
\* plugin or the unmount, does not touch this channel.
RUnlock(r) ==
    /\ store.panicked = "none"
    /\ store.pc[r] = "RUnlock"
    /\ store' = [store EXCEPT !.pc[r] = "idle", !.readers = @ \ {r}]
    /\ UNCHANGED storeVars

NextExit ==
    \E r \in Goroutines :
        \/ HandleExitEvent(r)
        \/ RLock(r)
        \/ TestExitChan(r)
        \/ CloseExitChan(r)
        \/ ClearExitChan(r)
        \/ RUnlock(r)

SpecExit == InitExit /\ [][NextExit]_vars

\* C29: whatever the sequence and interleaving of HandleExitEvent calls for
\* one plugin, close is called on the controller's exitChan at most once,
\* and no call closes a channel that is already closed or gone.
C29_ClosedAtMostOnce ==
    /\ store.closes <= 1
    /\ store.panicked = "none"

\* ------------------------------------- restart manager: kept and reset
\* One container and the calls made on its restart manager: RestartManager()
\* itself, the decision on an exit, the restart timer and the goroutine that
\* waits on it, a change of the restart policy, and ResetRestartManager.
\* store records the last call: its name, the manager RestartManager()
\* returned, the argument of the reset; tick changes with every call.  A
\* manager that neither the container nor a waiting goroutine refers to is
\* gone when the call returns.
monitorVars ==
    <<files, view, cmd, killed, exitPc, stopPc, pc, deepCopy, ret, saved,
      ck, logs, g>>

\* The policies the container is given and updated to.
MonitorPolicies ==
    {Policy("no", 0), Policy("always", 0), Policy("on-failure", MaxRetries)}

InitMonitor ==
    \E policy \in MonitorPolicies :
        LET b == NewBaseContainer(policy)
        IN  /\ files = [p \in Paths |-> NoFile]
            /\ view = NoContainer
            /\ cmd = "top"
            /\ killed = FALSE
            /\ exitPc = "idle"
            /\ stopPc = "idle"
            /\ pc = "idle"
            /\ deepCopy = NoContainer
            /\ ret = "none"
            /\ saved = NoDoc
            /\ ck = NoCheckpoint([p \in Paths |-> NoFile])
            /\ logs = NoLogs
            /\ g = InitHistory
            /\ container = b.c
            /\ heap = b.h
            /\ mgrs = [s \in Slots |-> FreeMgr]
            /\ store = [last |-> "none", got |-> Nil, resetCount |-> FALSE,
                        tick |-> FALSE]

Called(name) == [store EXCEPT !.last = name, !.tick = ~@]

\* A caller asks for the container's restart manager.
RestartManagerCall ==
    /\ container.restartManager # Nil \/ \E s \in Slots : mgrs[s].wait = "free"
    /\ LET w == RestartManager(container, heap, mgrs)
       IN  /\ container' = w.c
           /\ mgrs' = w.ms
           /\ store' = [Called("RestartManager") EXCEPT
                            !.got = w.c.restartManager]
    /\ UNCHANGED <<heap, monitorVars>>

\* A task that ran exits with a code and the policy is evaluated: a restart
\* is counted in RestartCount and waits for its timer.
ShouldRestartCall ==
    /\ container.restartManager # Nil \/ \E s \in Slots : mgrs[s].wait = "free"
    /\ container.RestartCount < MaxRestartCount
    /\ Phase(container, heap) # "restarting"
    /\ \E code \in {ExitTrue, ExitFalse} :
        LET h1 == SetStopped(container, heap, code)
            sr == ShouldRestart(container, h1, mgrs)
        IN  /\ container' = IF sr.restart
                            THEN [sr.c EXCEPT !.RestartCount = @ + 1]
                            ELSE sr.c
            /\ heap' = IF sr.restart
                       THEN SetRestarting(sr.c, h1, code) ELSE h1
            /\ mgrs' = CollectMgrs(sr.ms, sr.c.restartManager)
    /\ store' = Called("ShouldRestart")
    /\ UNCHANGED monitorVars

\* The goroutine waiting for the restart learns how the wait ended.
WaitResolved(s) ==
    /\ mgrs[s].wait \in {"fired", "canceled"}
    /\ mgrs' = CollectMgrs([mgrs EXCEPT ![s].wait = "none"],
                            container.restartManager)
    /\ heap' = IF mgrs[s].wait = "fired"
               THEN SetRunning(container, heap)
               ELSE SetStopped(container, heap,
                               heap[container.State].ExitCode)
    /\ store' = Called("Wait")
    /\ UNCHANGED <<container, monitorVars>>

\* The restart policy of the HostConfig is replaced.
SetRestartPolicy(policy) ==
    /\ heap[container.HostConfig].RestartPolicy # policy
    /\ heap' = [heap EXCEPT ![container.HostConfig].RestartPolicy = policy]
    /\ store' = Called("Update")
    /\ UNCHANGED <<container, mgrs, monitorVars>>

ResetRestartManagerCall(resetCount) ==
    /\ LET r == ResetRestartManager(container, mgrs, resetCount)
       IN  /\ container' = r.c
           /\ mgrs' = CollectMgrs(r.ms, r.c.restartManager)
    /\ store' = [Called("Reset") EXCEPT !.resetCount = resetCount]
    /\ UNCHANGED <<heap, monitorVars>>

NextMonitor ==
    \/ RestartManagerCall
    \/ ShouldRestartCall
    \/ \E s \in Slots : TimerFire(s)
    \/ \E s \in Slots : WaitResolved(s)
    \/ \E policy \in MonitorPolicies : SetRestartPolicy(policy)
    \/ \E resetCount \in BOOLEAN : ResetRestartManagerCall(resetCount)

SpecMonitor == InitMonitor /\ [][NextMonitor]_vars

CallStep(name) == store'.tick # store.tick /\ store'.last = name

\* C30: RestartManager() returns the container's manager unchanged while
\* there is one; ResetRestartManager cancels the current manager, so that a
\* restart pending on it is canceled and never fires, and leaves the
\* container without a manager, so that the next RestartManager() returns
\* a manager that was not there before, built from the current
\* HostConfig.RestartPolicy and RestartCount; a reset with true sets
\* RestartCount to 0 and a reset with false leaves it as it was.
C30_RestartManagerReset ==
    [][/\ (CallStep("RestartManager") /\ container.restartManager # Nil) =>
            /\ store'.got = container.restartManager
            /\ container' = container
            /\ mgrs' = mgrs
       /\ (CallStep("RestartManager") /\ container.restartManager = Nil) =>
            /\ store'.got # Nil
            /\ container'.restartManager = store'.got
            /\ mgrs[store'.got].wait = "free"
            /\ mgrs'[store'.got] =
                 rmNew(heap[container.HostConfig].RestartPolicy,
                       container.RestartCount)
            /\ container'.RestartCount = container.RestartCount
       /\ CallStep("Reset") =>
            /\ container'.restartManager = Nil
            /\ container'.RestartCount =
                 IF store'.resetCount THEN 0 ELSE container.RestartCount
            /\ \A s \in Slots :
                 s = container.restartManager =>
                    /\ mgrs'[s].wait # "free" => mgrs'[s].canceled
                    /\ mgrs'[s].wait # "pending"
                    /\ mgrs[s].wait = "pending" => mgrs'[s].wait = "canceled"
       /\ \A s \in Slots :
            (mgrs[s].canceled /\ mgrs[s].wait # "fired") =>
                mgrs'[s].wait # "fired"]_vars

\* A restart was pending when the policy was replaced and the manager
\* reset without resetting the count; the next RestartManager() has
\* returned a manager with the new policy and the count reached, while the
\* old one stays canceled.
C30_Witness ==
    /\ store.last = "RestartManager"
    /\ ~store.resetCount
    /\ container.restartManager = store.got
    /\ store.got # Nil
    /\ container.RestartCount > 0
    /\ mgrs[store.got] = rmNew(heap[container.HostConfig].RestartPolicy,
                               container.RestartCount)
    /\ \E s \in Slots :
        /\ s # store.got
        /\ mgrs[s].wait = "canceled"
        /\ mgrs[s].policy # mgrs[store.got].policy

\* ------------------------------------------ the two files after a crash
\* The documents of the checkpoint in progress, as whole files.
NewTargets == [n \in FileNames |-> WholeFile(ck.writing[n])]

\* C31: when the process dies at any step of toDisk, config.v2.json and
\* hostconfig.json are both as they were when toDisk began or both hold the
\* documents of the checkpoint in progress.
C31_SameCheckpoint ==
    [][(pc \notin {"idle", "crashed"} /\ pc' = "crashed") =>
            \/ Targets(files') = ck.before
            \/ Targets(files') = NewTargets]_vars

\* ------------------------------------- the snapshots of the two commits
\* C32: the snapshot the first CheckpointTo of a container hands to the view
\* store shows the same container fields and the same HostConfig as the one
\* CommitInMemory builds from the same container, a nil HostConfig included.
C32_EqualSnapshots ==
    [][(~files[ConfigFile].exists /\ files'[ConfigFile].exists) =>
            LET m == CommitInMemory(container, heap, view)
            IN  ValueOf(view', heap') = ValueOf(m.view, m.h)]_vars

\* ------------------------------------------ the ImagePlatform of a load
\* C33: after a successful FromDisk of a document whose ImagePlatform.OS is
\* not empty, the container's ImagePlatform is the stored one, whether the
\* document has the OS field or not.
C33_PlatformKept ==
    (ret = "ok" /\ Loaded /\ Parses(files[ConfigFile])
        /\ files[ConfigFile].doc.ImagePlatform.OS # "") =>
            container.ImagePlatform = files[ConfigFile].doc.ImagePlatform

\* ------------------------------------------------- plugin privileges
\* A privilege is a name and a value; a list of privileges sorts by name.
\* The names are listed in their order as strings.
MaxPrivileges == 2
PrivilegeNames == <<"mount", "network">>
PrivilegeValues == {"[/dev]", "[host]"}
Privileges ==
    {[Name |-> PrivilegeNames[i], Value |-> v] :
        i \in DOMAIN PrivilegeNames, v \in PrivilegeValues}
PrivilegeLists ==
    UNION {[1..n -> Privileges] : n \in 0..MaxPrivileges}

NameRank(name) == CHOOSE i \in DOMAIN PrivilegeNames : PrivilegeNames[i] = name
Less(a, b) == NameRank(a.Name) < NameRank(b.Name)

\* sort.Sort on a short slice is an insertion sort: each element moves left
\* past the elements it is less than.
RECURSIVE InsertSorted(_, _)
InsertSorted(arr, x) ==
    IF arr = <<>> \/ ~Less(x, arr[Len(arr)]) THEN Append(arr, x)
    ELSE Append(InsertSorted(SubSeq(arr, 1, Len(arr) - 1), x), arr[Len(arr)])

RECURSIVE Sort(_)
Sort(arr) ==
    IF arr = <<>> THEN <<>>
    ELSE InsertSorted(Sort(SubSeq(arr, 1, Len(arr) - 1)), arr[Len(arr)])

\* isEqualPrivilege: the names are equal and the values deeply equal.
isEqualPrivilege(a, b) == a.Name = b.Name /\ a.Value = b.Value

\* isEqual: the lengths are compared, both slices are sorted where they are,
\* and the elements are compared from index 1 of the slice (its second
\* element) to the last.
isEqual(arrOne, arrOther) ==
    IF Len(arrOne) # Len(arrOther) THEN FALSE
    ELSE LET one == Sort(arrOne)
             other == Sort(arrOther)
         IN  \A i \in 2..Len(one) : isEqualPrivilege(one[i], other[i])

validatePrivileges(requiredPrivileges, privileges) ==
    IF ~isEqual(requiredPrivileges, privileges) THEN "incorrect privileges"
    ELSE "nil"

\* One call: the two lists as given, the lists as the call leaves them, and
\* the error returned.
InitPrivileges ==
    /\ InitNoContainer
    /\ \E required, given \in PrivilegeLists :
        store = [required |-> required, given |-> given,
                 requiredPrivileges |-> required, privileges |-> given,
                 pc |-> "called", err |-> "none"]

ValidatePrivilegesCall ==
    /\ store.pc = "called"
    /\ store' =
         [store EXCEPT
            !.err = validatePrivileges(store.requiredPrivileges,
                                       store.privileges),
            !.requiredPrivileges =
                IF Len(@) = Len(store.privileges) THEN Sort(@) ELSE @,
            !.privileges =
                IF Len(@) = Len(store.requiredPrivileges) THEN Sort(@) ELSE @,
            !.pc = "done"]
    /\ UNCHANGED storeVars

NextPrivileges == ValidatePrivilegesCall

SpecPrivileges == InitPrivileges /\ [][NextPrivileges]_vars

\* How many times a list holds a privilege.
Occurrences(arr, x) == Cardinality({i \in DOMAIN arr : arr[i] = x})
SamePrivileges(arrOne, arrOther) ==
    \A x \in Privileges : Occurrences(arrOne, x) = Occurrences(arrOther, x)

\* C34: validatePrivileges returns nil exactly when the two lists hold the
\* same privileges, whatever their order, and the "incorrect privileges"
\* error when they differ in any element.
C34_ValidatePrivileges ==
    store.pc = "done" =>
        /\ store.err = "nil" <=> SamePrivileges(store.required, store.given)
        /\ store.err = "incorrect privileges"
                <=> ~SamePrivileges(store.required, store.given)

\* ------------------------------------------------- plugin executor
\* The containerd plugin executor and containerd as it sees it.  ctrs are
\* the ids that have a container in containerd, tasks the task of each id;
\* plugins is the executor's map, an entry holding the c8dPlugin value
\* registered (whether its ctr and its tsk are set); call is the Create or
\* Restore in progress: its plugin value p, what it returned, the step that
\* ended it, the deletions it requested of containerd and those containerd
\* refused, and the map as the call found it.
PluginIDs == {"p1", "p2"}
TaskStates == {"none", "created", "running", "stopped"}
c8dPlugin(ctr, tsk) == [ctr |-> ctr, tsk |-> tsk]
NoPlugin == [registered |-> FALSE, p |-> c8dPlugin(FALSE, FALSE)]
NoExecCall ==
    [op |-> "none", id |-> "p1", pc |-> "idle", p |-> c8dPlugin(FALSE, FALSE),
     alive |-> FALSE, err |-> "none", ended |-> "none", requested |-> {},
     refused |-> {}, before |-> [i \in PluginIDs |-> NoPlugin]]

InitExecutor ==
    /\ InitNoContainer
    /\ store = [ctrs |-> {}, tasks |-> [i \in PluginIDs |-> "none"],
                plugins |-> [i \in PluginIDs |-> NoPlugin],
                call |-> NoExecCall]

\* deleteTaskAndContainer that deletes the task only.
deleteTaskAndContainer_TaskOnly(st, tskOk, ctrOk) ==
    LET q == st.call.p
        id == st.call.id
    IN  IF q.tsk
        THEN [st EXCEPT !.call.requested = @ \cup {"task"},
                        !.call.refused = IF tskOk THEN @ ELSE @ \cup {"task"},
                        !.tasks[id] = IF tskOk THEN "none" ELSE @]
        ELSE st

\* c8dPlugin.deleteTaskAndContainer: the task, if the value has one, is
\* force-deleted, then the container, if the value has one, is deleted; an
\* error of either (tskOk, ctrOk false) is logged.
deleteTaskAndContainer(st, tskOk, ctrOk) ==
    LET q == st.call.p
        id == st.call.id
        st1 == IF q.tsk
               THEN [st EXCEPT
                       !.call.requested = @ \cup {"task"},
                       !.call.refused = IF tskOk THEN @ ELSE @ \cup {"task"},
                       !.tasks[id] = IF tskOk THEN "none" ELSE @]
               ELSE st
    IN  IF q.ctr
        THEN [st1 EXCEPT
                !.call.requested = @ \cup {"container"},
                !.call.refused = IF ctrOk THEN @ ELSE @ \cup {"container"},
                !.ctrs = IF ctrOk THEN @ \ {id} ELSE @]
        ELSE st1

\* A call returns.
Return(st, alive, err, ended) ==
    [st EXCEPT !.call.pc = "done", !.call.alive = alive, !.call.err = err,
               !.call.ended = ended]

\* e.plugins[id] = &p
Register(st) ==
    [st EXCEPT !.plugins[st.call.id] = [registered |-> TRUE, p |-> st.call.p]]

\* Create or Restore is called for a plugin.
ExecutorCall ==
    /\ store.call.pc \in {"idle", "done"}
    /\ \E op \in {"Create", "Restore"}, id \in PluginIDs :
        store' = [store EXCEPT
                    !.call = [NoExecCall EXCEPT !.op = op, !.id = id,
                                                !.pc = "called",
                                                !.before = store.plugins]]
    /\ UNCHANGED storeVars

\* Create: libcontainerd.ReplaceContainer; the new container has no task.
CreateReplaceContainer ==
    /\ store.call.op = "Create" /\ store.call.pc = "called"
    /\ \E ok \in BOOLEAN :
        store' =
          IF ok
          THEN [store EXCEPT !.ctrs = @ \cup {store.call.id},
                             !.tasks[store.call.id] = "none",
                             !.call.p = c8dPlugin(TRUE, FALSE),
                             !.call.pc = "NewTask"]
          ELSE Return(store, FALSE, "error creating containerd container",
                      "ReplaceContainer")
    /\ UNCHANGED storeVars

\* Create: ctr.NewTask, and the cleanup when it fails.
CreateNewTask ==
    /\ store.call.op = "Create" /\ store.call.pc = "NewTask"
    /\ \E ok, tskOk, ctrOk \in BOOLEAN :
        store' =
          IF ok
          THEN [store EXCEPT !.tasks[store.call.id] = "created",
                             !.call.p.tsk = TRUE,
                             !.call.pc = "Start"]
          ELSE Return(deleteTaskAndContainer(store, tskOk, ctrOk),
                      FALSE, "err", "NewTask")
    /\ UNCHANGED storeVars

\* Create: p.tsk.Start, the cleanup when it fails, the registration when it
\* does not.
CreateStart ==
    /\ store.call.op = "Create" /\ store.call.pc = "Start"
    /\ \E ok, tskOk, ctrOk \in BOOLEAN :
        store' =
          IF ok /\ store.tasks[store.call.id] = "created"
          THEN Return(Register([store EXCEPT
                                  !.tasks[store.call.id] = "running"]),
                      FALSE, "nil", "registered")
          ELSE Return(deleteTaskAndContainer(store, tskOk, ctrOk),
                      FALSE, "err", "Start")
    /\ UNCHANGED storeVars

\* Restore: e.client.LoadContainer, into a local variable.
RestoreLoadContainer ==
    /\ store.call.op = "Restore" /\ store.call.pc = "called"
    /\ \E ok \in BOOLEAN :
        store' =
          IF store.call.id \notin store.ctrs
          THEN Return(store, FALSE, "nil", "no container")
          ELSE IF ok THEN [store EXCEPT !.call.pc = "AttachTask"]
          ELSE Return(store, FALSE, "err", "LoadContainer")
    /\ UNCHANGED storeVars

\* Restore: ctr.AttachTask.
RestoreAttachTask ==
    /\ store.call.op = "Restore" /\ store.call.pc = "AttachTask"
    /\ \E ok, tskOk, ctrOk \in BOOLEAN :
        store' =
          IF store.tasks[store.call.id] = "none"
          THEN Return(deleteTaskAndContainer(store, tskOk, ctrOk),
                      FALSE, "nil", "task missing")
          ELSE IF ok THEN [store EXCEPT !.call.p.tsk = TRUE,
                                        !.call.pc = "Status"]
          ELSE Return(store, FALSE, "err", "AttachTask")
    /\ UNCHANGED storeVars

\* Restore: p.tsk.Status and what follows it.
RestoreStatus ==
    /\ store.call.op = "Restore" /\ store.call.pc = "Status"
    /\ \E ok, tskOk, ctrOk \in BOOLEAN :
        store' =
          IF store.tasks[store.call.id] = "none"
          THEN Return(deleteTaskAndContainer(
                          [store EXCEPT !.call.p.tsk = FALSE], tskOk, ctrOk),
                      FALSE, "nil", "task vanished")
          ELSE IF ~ok THEN Return(store, FALSE, "err", "Status")
          ELSE IF store.tasks[store.call.id] = "stopped"
          THEN Return(deleteTaskAndContainer(store, tskOk, ctrOk),
                      FALSE, "nil", "task stopped")
          ELSE Return(Register(store), TRUE, "nil", "registered")
    /\ UNCHANGED storeVars

\* The process of a task exits.
TaskStops(id) ==
    /\ store.tasks[id] \in {"created", "running"}
    /\ store' = [store EXCEPT !.tasks[id] = "stopped"]
    /\ UNCHANGED storeVars

\* A task is gone from containerd.
TaskVanishes(id) ==
    /\ store.tasks[id] # "none"
    /\ store' = [store EXCEPT !.tasks[id] = "none"]
    /\ UNCHANGED storeVars

NextExecutor ==
    \/ ExecutorCall
    \/ CreateReplaceContainer
    \/ CreateNewTask
    \/ CreateStart
    \/ RestoreLoadContainer
    \/ RestoreAttachTask
    \/ RestoreStatus
    \/ \E id \in PluginIDs : TaskStops(id)
    \/ \E id \in PluginIDs : TaskVanishes(id)

SpecExecutor == InitExecutor /\ [][NextExecutor]_vars

\* The call has returned, and nothing has happened since.
Returned(op) == store.call.op = op /\ store.call.pc = "done"
RegisteredByCall ==
    store.plugins[store.call.id] = [registered |-> TRUE, p |-> store.call.p]

\* C35: Restore returns alive exactly when the task was attached and is not
\* stopped, and registers the plugin exactly then; when it returns not alive
\* because the task is missing, has vanished or is stopped, neither the task
\* nor the container of the id is left in containerd (containerd refusing
\* no deletion).
C35_Restore ==
    Returned("Restore") =>
        /\ store.call.alive <=> store.call.ended = "registered"
        /\ store.call.alive => RegisteredByCall /\ store.call.p.tsk
        /\ ~store.call.alive => store.plugins = store.call.before
        /\ (store.call.ended \in {"task missing", "task vanished",
                                  "task stopped"}
              /\ store.call.refused = {}) =>
                /\ store.tasks[store.call.id] = "none"
                /\ store.call.id \notin store.ctrs

\* C36: Create registers the plugin exactly when it returns nil; when
\* NewTask or Start fails it returns the error, has the task (if it was
\* created) and the container deleted from containerd, both gone unless
\* containerd refused, and leaves the map as it was.
C36_Create ==
    Returned("Create") =>
        /\ store.call.err = "nil" <=> store.call.ended = "registered"
        /\ store.call.err = "nil" => RegisteredByCall
        /\ store.call.err # "nil" => store.plugins = store.call.before
        /\ store.call.ended \in {"NewTask", "Start"} =>
                /\ store.call.err = "err"
                /\ "container" \in store.call.requested
                /\ ("task" \in store.call.requested)
                        <=> store.call.ended = "Start"
                /\ "container" \notin store.call.refused
                        => store.call.id \notin store.ctrs
                /\ "task" \notin store.call.refused
                        => store.tasks[store.call.id] = "none"

\* Start failed for a plugin registered by an earlier Create: the error is
\* returned, the task and the container are gone, and the map still holds
\* the earlier registration.
C36_Witness ==
    /\ Returned("Create")
    /\ store.call.ended = "Start"
    /\ store.call.requested = {"task", "container"}
    /\ store.call.refused = {}
    /\ store.call.id \notin store.ctrs
    /\ store.plugins[store.call.id].registered
    /\ store.plugins = store.call.before

\* ----------------------------------------------- stats of a container
\* The sample before the i-th one of a request: none before the first.
PreSample(samples, i) ==
    IF i = 1 THEN [CPUStats |-> 0, Read |-> 0] ELSE samples[i - 1]
ExpectedFrame(samples, i) ==
    StatsFrame(samples[i], PreSample(samples, i).CPUStats,
               PreSample(samples, i).Read)

\* C37: for a running container without stream and without one-shot,
\* ContainerStats takes the first sample without handing it to the encoder,
\* encodes exactly one frame, for the second sample, with the first
\* sample's CPU reading and read time as PreCPUStats and PreRead, and
\* returns; with stream every frame carries the CPU reading and read time
\* of the sample before it (none before the first).
C37_PreviousSample ==
    (/\ store.found /\ store.phase = "running" /\ ~store.OneShot
     /\ store.pc \in {"loop", "done"}) =>
        IF ~store.Stream
        THEN /\ Len(store.samples) <= 2
             /\ Len(store.samples) <= 1 => store.encoded = <<>>
             /\ Len(store.samples) = 2 =>
                   /\ store.encoded = <<ExpectedFrame(store.samples, 2)>>
                   /\ store.pc = "done"
                   /\ store.written =
                          IF store.err = "nil" THEN store.encoded ELSE <<>>
             /\ store.ended = "frame written" =>
                   store.written = <<ExpectedFrame(store.samples, 2)>>
        ELSE /\ Len(store.encoded) = Len(store.samples)
             /\ \A i \in 1..Len(store.encoded) :
                   store.encoded[i] = ExpectedFrame(store.samples, i)
             /\ \A i \in 1..Len(store.written) :
                   store.written[i] = ExpectedFrame(store.samples, i)

\* A request without stream has written its frame for a second sample that
\* differs from the first in both the CPU reading and the read time.
C37_Witness ==
    /\ store.found /\ store.phase = "running"
    /\ ~store.Stream /\ ~store.OneShot
    /\ store.pc = "done" /\ store.ended = "frame written"
    /\ Len(store.samples) = 2
    /\ store.samples[1].CPUStats # store.samples[2].CPUStats
    /\ store.samples[1].Read # store.samples[2].Read
    /\ Len(store.written) = 1

\* C38: a ContainerStats call that subscribed to the collector holds its
\* own channel while it loops and has unsubscribed that channel, and no
\* other, when it has returned, whichever way it returned.
C38_Unsubscribed ==
    /\ store.pc = "loop" =>
          /\ store.subscriptions = 1
          /\ store.updates \in Channels \ store.others
          /\ store.collector = store.others \cup {store.updates}
    /\ (store.pc = "done" /\ store.subscriptions > 0) =>
          /\ store.ended \in {"updates closed", "encode error",
                              "frame written", "context done"}
          /\ store.collector = store.others
          /\ ~store.subscribed

\* A call that subscribed next to another subscriber has returned on an
\* encode error.
C38_Witness ==
    /\ store.pc = "done" /\ store.subscriptions = 1
    /\ store.ended = "encode error"
    /\ store.others # {}
    /\ store.collector = store.others

\* C39: for a container that is not running, or is restarting, a request
\* without stream hands exactly one response to the encoder, holding the
\* name and ID only, and neither collects stats nor subscribes to the
\* collector.
C39_EmptyStats ==
    (/\ store.found /\ store.phase # "running" /\ ~store.Stream
     /\ store.pc \notin {"idle", "called"}) =>
        /\ store.pc = "done"
        /\ store.encoded = <<EmptyFrame>>
        /\ store.written = (IF store.err = "nil" THEN <<EmptyFrame>> ELSE <<>>)
        /\ store.err \in {"nil", "error"}
        /\ store.collected = 0
        /\ store.subscriptions = 0
        /\ store.collector = store.others

\* A one-shot request on a restarting container got the empty response.
C39_Witness ==
    /\ store.found /\ store.phase = "restarting"
    /\ ~store.Stream /\ store.OneShot
    /\ store.pc = "done"
    /\ store.written = <<EmptyFrame>>

\* The steps GetContainerStats runs, and the error of the first that fails.
NetworkStep(c) == ~c.NetworkDisabled /\ HostOS # "windows"
StepsOf(c) ==
    <<c.statsErr, c.cpuErr>> \o (IF NetworkStep(c) THEN <<c.netErr>> ELSE <<>>)
Failure(c) ==
    LET steps == StepsOf(c)
        failed == {i \in 1..Len(steps) : steps[i] # "nil"}
    IN  IF failed = {} THEN "nil"
        ELSE steps[CHOOSE i \in failed : \A j \in failed : i <= j]

\* C40: GetContainerStats returns the collected stats and no error when
\* every step succeeds, a response with the name and ID only and no error
\* when a step fails with Conflict or NotFound, and no stats with the
\* error when a step fails otherwise.
C40_GetContainerStats ==
    store.collected > 0 =>
        LET c == store.collect
        IN  /\ Failure(c) = "nil" =>
                  /\ c.stats = "collected" /\ c.err = "nil"
                  /\ c.frame = StatsFrame(c.v, 0, 0)
                  /\ c.SystemUsage
                  /\ c.Networks = NetworkStep(c)
            /\ Failure(c) \in {"Conflict", "NotFound"} =>
                  /\ c.stats = "empty" /\ c.err = "nil"
                  /\ c.frame = EmptyFrame
            /\ Failure(c) = "other" =>
                  /\ c.stats = "nil" /\ c.err = "other"

\* The container's stats could not be read because it was not found, and
\* the one-shot request wrote the response with the name and ID only.
C40_Witness ==
    /\ store.collected > 0
    /\ store.collect.statsErr = "NotFound"
    /\ store.collect.stats = "empty" /\ store.collect.err = "nil"
    /\ store.ended = "one shot"
    /\ store.written = <<EmptyFrame>>

====
